---- MODULE Spec2Model ----
(***************************************************************************)
(* A model of the error propagation solvers of error_solver              *)
(* (src/error_solver/solvers).  Floating point numbers are modelled as    *)
(* exact rationals <<n, d>> in lowest terms with d > 0; <<0, 0>> stands    *)
(* for NaN.  Variable names are strings, ordered as Python orders str:    *)
(* by code point, lexicographically.                                       *)
(***************************************************************************)
EXTENDS Integers, Sequences, FiniteSets, TLC

\* ------------------------------------------------------------------------
\* Bounds of the model
\* ------------------------------------------------------------------------

\* Generic integer values supplied for a variable are drawn from 0..MaxInt.
MaxInt == 2

\* ------------------------------------------------------------------------
\* Numbers
\* ------------------------------------------------------------------------

IAbs(n) == IF n < 0 THEN -n ELSE n

RECURSIVE Gcd(_, _)
Gcd(a, b) == IF b = 0 THEN a ELSE Gcd(b, a % b)

\* The rational n/d in lowest terms, d # 0.
Rat(n, d) ==
    LET g == Gcd(IAbs(n), IAbs(d))
        s == IF d < 0 THEN -1 ELSE 1
    IN  <<s * (n \div g), s * (d \div g)>>

RInt(n) == <<n, 1>>
Zero == RInt(0)
One == RInt(1)
NaN == <<0, 0>>

IsNaN(x) == x[2] = 0

RAdd(x, y) ==
    LET g == Gcd(x[2], y[2])
    IN  Rat(x[1] * (y[2] \div g) + y[1] * (x[2] \div g), (x[2] \div g) * y[2])

RNeg(x) == <<-x[1], x[2]>>

RSub(x, y) == RAdd(x, RNeg(y))

\* Cross-cancelled so that intermediate products stay small.
RMul(x, y) ==
    LET g1 == Gcd(IAbs(x[1]), y[2])
        g2 == Gcd(IAbs(y[1]), x[2])
    IN  IF x[1] = 0 \/ y[1] = 0 THEN Zero
        ELSE <<(x[1] \div g1) * (y[1] \div g2), (x[2] \div g2) * (y[2] \div g1)>>

RInv(x) == IF x[1] < 0 THEN <<-x[2], -x[1]>> ELSE <<x[2], x[1]>>

RDiv(x, y) == RMul(x, RInv(y))

RAbs(x) == <<IAbs(x[1]), x[2]>>

RLess(x, y) ==
    LET g == Gcd(x[2], y[2])
    IN  x[1] * (y[2] \div g) < y[1] * (x[2] \div g)

RLeq(x, y) == x = y \/ RLess(x, y)

RECURSIVE RPow(_, _)
RPow(x, k) == IF k = 0 THEN One ELSE RMul(x, RPow(x, k - 1))

\* ------------------------------------------------------------------------
\* Names and their order
\* ------------------------------------------------------------------------

\* The code points of the names the model uses (Python's ord of each char).
CodePoints(s) ==
    CASE s = "A"  -> <<65>>
      [] s = "I"  -> <<73>>
      [] s = "R"  -> <<82>>
      [] s = "V"  -> <<86>>
      [] s = "a"  -> <<97>>
      [] s = "b"  -> <<98>>
      [] s = "h"  -> <<104>>
      [] s = "pi" -> <<112, 105>>
      [] s = "r"  -> <<114>>
      [] s = "x"  -> <<120>>
      [] s = "y"  -> <<121>>
      [] s = "z"  -> <<122>>

\* Python's str.__lt__: the first differing code point decides, a proper
\* prefix is smaller.
RECURSIVE SeqLess(_, _)
SeqLess(s, t) ==
    IF t = <<>> THEN FALSE
    ELSE IF s = <<>> THEN TRUE
    ELSE IF Head(s) # Head(t) THEN Head(s) < Head(t)
    ELSE SeqLess(Tail(s), Tail(t))

StrLess(a, b) == SeqLess(CodePoints(a), CodePoints(b))

\* Python's sorted() of a set of names.
RECURSIVE Sorted(_)
Sorted(S) ==
    IF S = {} THEN <<>>
    ELSE LET m == CHOOSE x \in S : \A y \in S \ {x} : StrLess(x, y)
         IN  <<m>> \o Sorted(S \ {m})

Range(s) == {s[i] : i \in DOMAIN s}

\* ------------------------------------------------------------------------
\* Expressions (sympy): polynomials in symbols
\* ------------------------------------------------------------------------
\* An expression is a set of terms [c |-> coefficient, m |-> monomial], a
\* monomial being a function from symbols to exponents >= 1; like terms are
\* collected and zero terms dropped, as sympy's Add does.  The constants pi
\* and I are symbols of a monomial that are not free symbols.

ConstSymbols == {"pi", "I"}

\* The value evalf() gives pi.
PiApprox == <<355, 113>>

Term(c, m) == [c |-> c, m |-> m]

Without(m, S) == [s \in DOMAIN m \ S |-> m[s]]

RECURSIVE SumCoef(_)
SumCoef(T) ==
    IF T = {} THEN Zero
    ELSE LET t == CHOOSE u \in T : TRUE
         IN  RAdd(t.c, SumCoef(T \ {t}))

\* Terms given as a function from an index set to terms: like terms
\* collected, zero terms dropped.
Collect(f) ==
    LET ms == {f[i].m : i \in DOMAIN f}
        coef(mm) == SumCoef({[c |-> f[i].c, m |-> i] : i \in {j \in DOMAIN f : f[j].m = mm}})
    IN  {Term(coef(mm), mm) : mm \in {k \in ms : coef(k) # Zero}}

FreeSymbols(e) == UNION {DOMAIN t.m : t \in e} \ ConstSymbols

RECURSIVE PowProduct(_, _, _)
PowProduct(m, point, S) ==
    IF S = {} THEN One
    ELSE LET s == CHOOSE u \in S : TRUE
         IN  RMul(RPow(point[s], m[s]), PowProduct(m, point, S \ {s}))

\* expr.subs(point): every symbol that is a key of point is replaced by its
\* value; a key naming a constant (pi, I) replaces the constant.
Subs(e, point) ==
    Collect([t \in e |->
        Term(RMul(t.c, PowProduct(t.m, point, DOMAIN t.m \cap DOMAIN point)),
             Without(t.m, DOMAIN point))])

\* expr.evalf(): pi becomes a number; I and the free symbols stay.
Evalf(e) == Subs(e, [s \in {"pi"} |-> PiApprox])

\* sympy.diff(expr, k)
Diff(e, k) ==
    Collect([t \in {u \in e : k \in DOMAIN u.m} |->
        Term(RMul(t.c, RInt(t.m[k])),
             IF t.m[k] = 1 THEN Without(t.m, {k})
             ELSE [t.m EXCEPT ![k] = @ - 1])])

\* What float(v) can be taken of: no free symbol and no imaginary part.
IsReal(e) == \A t \in e : t.m = <<>>

\* float(v) of a real constant expression.
FloatOf(e) == SumCoef(e)

\* ------------------------------------------------------------------------
\* Reported numbers: a rational <<n, d>>, NaN, or <<n, d, 2>>, the
\* irrational square root of n/d
\* ------------------------------------------------------------------------

RECURSIVE ISqrtIn(_, _, _)
ISqrtIn(n, lo, hi) ==
    IF lo >= hi THEN lo
    ELSE LET mid == (lo + hi + 1) \div 2
         IN  IF mid <= n \div mid THEN ISqrtIn(n, mid, hi)
             ELSE ISqrtIn(n, lo, mid - 1)

\* The integer square root of n >= 0.
ISqrt(n) == ISqrtIn(n, 0, n)

IsSquare(n) == ISqrt(n) * ISqrt(n) = n

\* x ** 0.5 for a rational x >= 0.
RSqrt(x) ==
    IF IsSquare(x[1]) /\ IsSquare(x[2]) THEN <<ISqrt(x[1]), ISqrt(x[2])>>
    ELSE <<x[1], x[2], 2>>

Inf == <<1, 0>>

\* 100 * abs(e / v) without the replacement of inf by nan.
PctError_inf_kept(e, v) ==
    IF v = Zero THEN (IF e[1] = 0 THEN NaN ELSE Inf)
    ELSE IF Len(e) = 2 THEN RMul(RInt(100), RAbs(RDiv(e, v)))
    ELSE LET q == RMul(RInt(100), RAbs(RInv(v)))
         IN  RSqrt(RMul(<<e[1], e[2]>>, RMul(q, q)))

\* 100 * abs(e / v) for a reported number e and a rational v; division by
\* zero gives inf or nan, and inf is replaced by nan.
PctError(e, v) ==
    IF v = Zero THEN NaN
    ELSE IF Len(e) = 2 THEN RMul(RInt(100), RAbs(RDiv(e, v)))
    ELSE LET q == RMul(RInt(100), RAbs(RInv(v)))
         IN  RSqrt(RMul(<<e[1], e[2]>>, RMul(q, q)))

\* ------------------------------------------------------------------------
\* Matrices (numpy): sequences of rows
\* ------------------------------------------------------------------------

Cols(a, from, to) ==
    [i \in DOMAIN a |-> [j \in 1..(to - from + 1) |-> a[i][from + j - 1]]]

MAbs(a) == [i \in DOMAIN a |-> [j \in DOMAIN a[i] |-> RAbs(a[i][j])]]

Minor(a, r, c) ==
    [i \in 1..(Len(a) - 1) |->
        [j \in 1..(Len(a) - 1) |->
            a[IF i < r THEN i ELSE i + 1][IF j < c THEN j ELSE j + 1]]]

RECURSIVE Det(_)
RECURSIVE DetFrom(_, _)
DetFrom(a, j) ==
    IF j > Len(a) THEN Zero
    ELSE RAdd(RMul(RMul(RInt(IF j % 2 = 1 THEN 1 ELSE -1), a[1][j]),
                   Det(Minor(a, 1, j))),
              DetFrom(a, j + 1))
Det(a) == IF Len(a) = 0 THEN One ELSE DetFrom(a, 1)

IsSquareMatrix(a) == \A i \in DOMAIN a : Len(a[i]) = Len(a)

\* numpy.linalg.inv of a square matrix with a nonzero determinant.
Inverse(a) ==
    [i \in DOMAIN a |->
        [j \in DOMAIN a |->
            RDiv(RMul(RInt(IF (i + j) % 2 = 0 THEN 1 ELSE -1),
                      Det(Minor(a, j, i))),
                 Det(a))]]

RECURSIVE DotFrom(_, _, _)
DotFrom(row, x, j) ==
    IF j > Len(row) THEN Zero
    ELSE RAdd(RMul(row[j], x[j]), DotFrom(row, x, j + 1))

\* a.dot(x) for a matrix a and a column vector x.
Dot(a, x) == [i \in DOMAIN a |-> DotFrom(a[i], x, 1)]

VAdd(x, y) == [i \in DOMAIN x |-> RAdd(x[i], y[i])]

\* ------------------------------------------------------------------------
\* Solvers
\* ------------------------------------------------------------------------
\* A solver is a record [kind, equations, partials, combos, tol]: kind "sym"
\* is an ErrorSolver (sympy expressions), kind "py" an ErrorSolverPy whose
\* functions are the ones python_str writes for the same expressions (each
\* takes the free symbols of its equation as arguments, and **kwargs).

NoCombo == "None"

\* ErrorSolver.set_partials
set_partials(eqs) ==
    [i \in DOMAIN eqs |-> [k \in FreeSymbols(eqs[i]) |-> Diff(eqs[i], k)]]

\* The dicts of partials list their keys in the order in which the set
\* free_symbols was iterated when they were built (for an ErrorSolverPy, in
\* the order in which they were written); the order depends on the hashes of
\* the names and stays the same for the life of the solver. Two of the
\* possible orders are modelled.
KeyOrders == {"ascending", "descending"}

ErrorSolver(eqs, cmb, tolerance) ==
    [kind |-> "sym", equations |-> eqs, partials |-> set_partials(eqs),
     combos |-> cmb, tol |-> tolerance, keyorder |-> "ascending"]

ErrorSolverPy(eqs, parts, cmb, tolerance) ==
    [kind |-> "py", equations |-> eqs, partials |-> parts,
     combos |-> cmb, tol |-> tolerance, keyorder |-> "ascending"]

\* The keys of a dict of partials in the order the dict lists them.
keys(self, p) ==
    LET up == Sorted(DOMAIN p)
    IN  IF self.keyorder = "ascending" THEN up
        ELSE [i \in DOMAIN up |-> up[Len(up) + 1 - i]]

get_equations(self, cmb) ==
    IF cmb = NoCombo THEN self.equations
    ELSE [i \in DOMAIN self.combos[cmb] |-> self.equations[self.combos[cmb][i] + 1]]

get_partials(self, cmb) ==
    IF cmb = NoCombo THEN self.partials
    ELSE [i \in DOMAIN self.combos[cmb] |-> self.partials[self.combos[cmb][i] + 1]]

equation_vars(self, cmb) ==
    UNION {DOMAIN get_partials(self, cmb)[i] : i \in DOMAIN get_partials(self, cmb)}

\* used_vars without the removal of the known-error variables.
used_vars_overlap(self, vals, errs, cmb) ==
    LET var == equation_vars(self, cmb)
    IN  <<Sorted(var \cap DOMAIN vals), Sorted(var \cap DOMAIN errs)>>

\* <<val, err>>: the sorted unknown-error and known-error variables.
used_vars(self, vals, errs, cmb) ==
    LET var == equation_vars(self, cmb)
        err == var \cap DOMAIN errs
        val == (var \cap DOMAIN vals) \ err
    IN  <<Sorted(val), Sorted(err)>>

\* _check_determinancy raising only when the equations outnumber the
\* unknowns.
check_determinancy_one_sided(self, vals, errs, cmb) ==
    LET n == Len(used_vars(self, vals, errs, cmb)[1])
        m == Len(get_equations(self, cmb))
    IN  IF m > n THEN "Indeterminant" ELSE ""

\* The message of _check_determinancy: "" when the system is determinate.
check_determinancy(self, vals, errs, cmb) ==
    LET n == Len(used_vars(self, vals, errs, cmb)[1])
        m == Len(get_equations(self, cmb))
    IN  IF n # m THEN "Indeterminant" ELSE ""

\* What parse_expr reads a key as.
parse_expr(name) ==
    CASE name = "pi" -> "NumberSymbol"
      [] name = "I" -> "ImaginaryUnit"
      [] OTHER -> "Symbol"

restr == {"NumberSymbol", "ImaginaryUnit", "ComplexInfinity"}

\* _check_restricted_symbols looking at the keys of values only.
check_restricted_symbols_values_only(vals, errs) ==
    Sorted({v \in DOMAIN vals : parse_expr(v) \in restr})

\* The names _check_restricted_symbols reports, sorted; <<>> when it passes.
check_restricted_symbols(vals, errs) ==
    Sorted({v \in DOMAIN vals \cup DOMAIN errs : parse_expr(v) \in restr})

\* _check_values comparing with >= instead of >.
value_status_at_least(self, eq, vals) ==
    IF self.kind = "sym"
    THEN LET v == Evalf(Subs(eq, vals))
         IN  IF FreeSymbols(v) # {} THEN "MissingValues"
             ELSE IF ~IsReal(v) THEN "TypeError"
             ELSE IF RLeq(self.tol, RAbs(FloatOf(v))) THEN "ToleranceExceeded"
             ELSE ""
    ELSE IF ~(FreeSymbols(eq) \subseteq DOMAIN vals) THEN "TypeError"
         ELSE LET v == Evalf(Subs(eq, [k \in FreeSymbols(eq) |-> vals[k]]))
              IN  IF RLeq(self.tol, RAbs(FloatOf(v))) THEN "ToleranceExceeded"
                  ELSE ""

\* _check_values of ErrorSolverPy comparing v, not abs(v), with tol.
value_status_py_signed(self, eq, vals) ==
    IF self.kind = "sym"
    THEN LET v == Evalf(Subs(eq, vals))
         IN  IF FreeSymbols(v) # {} THEN "MissingValues"
             ELSE IF ~IsReal(v) THEN "TypeError"
             ELSE IF RLess(self.tol, RAbs(FloatOf(v))) THEN "ToleranceExceeded"
             ELSE ""
    ELSE IF ~(FreeSymbols(eq) \subseteq DOMAIN vals) THEN "TypeError"
         ELSE LET v == Evalf(Subs(eq, [k \in FreeSymbols(eq) |-> vals[k]]))
              IN  IF RLess(self.tol, FloatOf(v)) THEN "ToleranceExceeded"
                  ELSE ""

\* The outcome of one equation in _check_values: "" when it passes.
value_status(self, eq, vals) ==
    IF self.kind = "sym"
    THEN LET v == Evalf(Subs(eq, vals))
         IN  IF FreeSymbols(v) # {} THEN "MissingValues"
             ELSE IF ~IsReal(v) THEN "TypeError"
             ELSE IF RLess(self.tol, RAbs(FloatOf(v))) THEN "ToleranceExceeded"
             ELSE ""
    ELSE IF ~(FreeSymbols(eq) \subseteq DOMAIN vals) THEN "TypeError"
         ELSE LET v == Evalf(Subs(eq, [k \in FreeSymbols(eq) |-> vals[k]]))
              IN  IF RLess(self.tol, RAbs(FloatOf(v))) THEN "ToleranceExceeded"
                  ELSE ""

\* _check_values: <<index of the first failing equation, its outcome>>,
\* <<-1, "">> when every equation passes.
check_values(self, vals, cmb) ==
    LET eqs == get_equations(self, cmb)
        bad == {i \in DOMAIN eqs : value_status(self, eqs[i], vals) # ""}
        first == CHOOSE i \in bad : \A j \in bad : i <= j
    IN  IF bad = {} THEN <<-1, "">>
        ELSE <<first - 1, value_status(self, eqs[first], vals)>>

\* One cell of the Jacobian: <<"", number>> or <<exception, NaN>>.
jacobian_cell(self, p, k, eq, vals, var) ==
    IF k \notin Range(var) THEN <<"KeyError", NaN>>
    ELSE IF self.kind = "sym"
    THEN LET v == Evalf(Subs(p[k], vals))
         IN  IF FreeSymbols(v) # {} \/ ~IsReal(v) THEN <<"TypeError", NaN>>
             ELSE <<"", FloatOf(v)>>
    ELSE IF ~(FreeSymbols(eq) \subseteq DOMAIN vals) THEN <<"TypeError", NaN>>
         ELSE <<"", FloatOf(Evalf(Subs(p[k], [s \in FreeSymbols(eq) |-> vals[s]])))>>

\* The exception jacobian raises, "" when it returns: that of the first
\* failing cell, the rows taken in order and the cells of a row in the order
\* of the keys of its dict of partials.
jacobian_error(self, vals, errs, cmb) ==
    LET ps == get_partials(self, cmb)
        eqs == get_equations(self, cmb)
        uv == used_vars(self, vals, errs, cmb)
        var == uv[1] \o uv[2]
        cell(i, k) == jacobian_cell(self, ps[i], k, eqs[i], vals, var)[1]
        fails(i) == {n \in DOMAIN keys(self, ps[i]) : cell(i, keys(self, ps[i])[n]) # ""}
        bad == {i \in DOMAIN ps : fails(i) # {}}
        row == CHOOSE i \in bad : \A j \in bad : i <= j
        col == CHOOSE n \in fails(row) : \A o \in fails(row) : n <= o
    IN  IF bad = {} THEN "" ELSE cell(row, keys(self, ps[row])[col])

\* jacobian with the known-error columns before the unknown-error ones.
jacobian_known_first(self, vals, errs, cmb) ==
    LET ps == get_partials(self, cmb)
        eqs == get_equations(self, cmb)
        uv == used_vars(self, vals, errs, cmb)
        var == uv[2] \o uv[1]
    IN  [i \in DOMAIN ps |->
            [j \in DOMAIN var |->
                IF var[j] \in DOMAIN ps[i]
                THEN jacobian_cell(self, ps[i], var[j], eqs[i], vals, var)[2]
                ELSE Zero]]

\* The matrix jacobian returns when no cell fails.
jacobian(self, vals, errs, cmb) ==
    LET ps == get_partials(self, cmb)
        eqs == get_equations(self, cmb)
        uv == used_vars(self, vals, errs, cmb)
        var == uv[1] \o uv[2]
    IN  [i \in DOMAIN ps |->
            [j \in DOMAIN var |->
                IF var[j] \in DOMAIN ps[i]
                THEN jacobian_cell(self, ps[i], var[j], eqs[i], vals, var)[2]
                ELSE Zero]]

\* check() with the residual check called first.
check_order_values_first(self) ==
    IF self.kind = "sym"
    THEN <<"check_values", "check_restricted_symbols", "check_determinancy">>
    ELSE <<"check_values", "check_determinancy">>

\* check(): the checks in the order they are called.
check_order(self) ==
    IF self.kind = "sym"
    THEN <<"check_restricted_symbols", "check_values", "check_determinancy">>
    ELSE <<"check_values", "check_determinancy">>

\* np.linalg.inv raising for a matrix that is not square only.
inv_error_shape_only(ju) ==
    IF ~IsSquareMatrix(ju) THEN "LinAlgError" ELSE ""

\* np.linalg.inv(ju): the exception it raises, "" when it returns.
inv_error(ju) ==
    IF ~IsSquareMatrix(ju) \/ Det(ju) = Zero THEN "LinAlgError" ELSE ""

\* ------------------------------------------------------------------------
\* _BaseErrorSolver.solve: propagation and the result table
\* ------------------------------------------------------------------------

Get(d, k, default) == IF k \in DOMAIN d THEN d[k] ELSE default

Square(x) == RMul(x, x)

\* xk with the constant errors added as they are given, sign included.
known_errors_signed_const(err, errs, cst, sd) ==
    [i \in DOMAIN err |->
        LET x == errs[err[i]]
            c == Get(cst, err[i], Zero)
        IN  IF DOMAIN cst # {}
            THEN IF sd THEN RAdd(Square(x), Square(c)) ELSE RAdd(RAbs(x), c)
            ELSE IF sd THEN Square(x) ELSE RAbs(x)]

\* xk as solve leaves it before the final square root: the known errors,
\* with the constant errors added when a const mapping is supplied.
known_errors(err, errs, cst, sd) ==
    [i \in DOMAIN err |->
        LET x == errs[err[i]]
            c == Get(cst, err[i], Zero)
        IN  IF DOMAIN cst # {}
            THEN IF sd THEN RAdd(Square(x), Square(c)) ELSE RAdd(RAbs(x), RAbs(c))
            ELSE IF sd THEN Square(x) ELSE RAbs(x)]

\* cu without the squares of the standard deviation mode.
unknown_consts_not_squared(val, cst, sd) ==
    [i \in DOMAIN val |-> RAbs(Get(cst, val[i], Zero))]

\* cu: the constant errors of the unknown variables.
unknown_consts(val, cst, sd) ==
    [i \in DOMAIN val |->
        LET c == Get(cst, val[i], Zero)
        IN  IF sd THEN Square(c) ELSE RAbs(c)]

\* xu computed from the signed known block.
unknown_errors_signed(j, ji, val, err, errs, cst, sd) ==
    LET n == Len(val)
        m == Len(err)
        ju == MAbs(Cols(j, 1, n))
        jk == Cols(j, n + 1, n + m)
        xk == known_errors(err, errs, cst, sd)
    IN  IF DOMAIN cst # {}
        THEN Dot(ji, VAdd(Dot(jk, xk), Dot(ju, unknown_consts(val, cst, sd))))
        ELSE Dot(ji, Dot(jk, xk))

\* xu before the final square root.
unknown_errors(j, ji, val, err, errs, cst, sd) ==
    LET n == Len(val)
        m == Len(err)
        ju == MAbs(Cols(j, 1, n))
        jk == MAbs(Cols(j, n + 1, n + m))
        xk == known_errors(err, errs, cst, sd)
    IN  IF DOMAIN cst # {}
        THEN Dot(ji, VAdd(Dot(jk, xk), Dot(ju, unknown_consts(val, cst, sd))))
        ELSE Dot(ji, Dot(jk, xk))

Reported(x, sd) == IF sd THEN RSqrt(x) ELSE x

\* The errors mapping with the constant errors accumulated into it, as if
\* xk were a view of the caller's data.
errors_after_in_place(errs, err, cst, sd) ==
    [k \in DOMAIN errs |->
        IF k \in Range(err)
        THEN RAdd(RAbs(errs[k]), RAbs(Get(cst, k, Zero)))
        ELSE errs[k]]

\* The caller's errors mapping once solve has updated xk: np.array copied
\* the errors, so the in-place updates of xk leave the mapping as it was.
errors_after(errs, err, cst, sd) == errs

\* The rows of the data frame in the order of val + err, before sorting.
table_rows(val, err, vals, xu, xk, sd) ==
    [i \in 1..(Len(val) + Len(err)) |->
        LET k == (val \o err)[i]
            e == Reported((xu \o xk)[i], sd)
        IN  [var |-> k, value |-> vals[k], error |-> e,
             pct_error |-> PctError(e, vals[k]), is_calc |-> i <= Len(val)]]

\* The rows left in the order of val + err.
sort_values_not_done(rows) == rows

\* df.sort_values('var')
sort_values(rows) ==
    LET names == Sorted({rows[i].var : i \in DOMAIN rows})
    IN  [i \in DOMAIN names |->
            rows[CHOOSE r \in DOMAIN rows : rows[r].var = names[i]]]

\* ------------------------------------------------------------------------
\* The solvers and the inputs of the model
\* ------------------------------------------------------------------------

\* The default of the tol parameter: 0.01.
DefaultTol == <<1, 100>>

NoCombos == <<>>

\* 'A = pi * r**2', 'V = A * h'
CylinderEquations ==
    << {Term(One, "A" :> 1), Term(RInt(-1), "pi" :> 1 @@ "r" :> 2)},
       {Term(One, "V" :> 1), Term(RInt(-1), "A" :> 1 @@ "h" :> 1)} >>

\* 'V = I * R': sympy reads I as the imaginary unit.
OhmEquations ==
    << {Term(One, "V" :> 1), Term(RInt(-1), "I" :> 1 @@ "R" :> 1)} >>

\* 'z = x * y'
ProductEquations ==
    << {Term(One, "z" :> 1), Term(RInt(-1), "x" :> 1 @@ "y" :> 1)} >>

\* 'x + y = a', '2*x + 2*y = b'
LinearEquations ==
    << {Term(One, "x" :> 1), Term(One, "y" :> 1), Term(RInt(-1), "a" :> 1)},
       {Term(RInt(2), "x" :> 1), Term(RInt(2), "y" :> 1), Term(RInt(-1), "b" :> 1)} >>

\* 'a + b = x + 2*y', 'a - b = x'
MixEquations ==
    << {Term(One, "a" :> 1), Term(One, "b" :> 1), Term(RInt(-1), "x" :> 1),
        Term(RInt(-2), "y" :> 1)},
       {Term(One, "a" :> 1), Term(RInt(-1), "b" :> 1), Term(RInt(-1), "x" :> 1)} >>

\* 'A = pi * r**2' alone, and 'V = A * h' alone
AreaEquations == <<CylinderEquations[1]>>

VolumeEquations == <<CylinderEquations[2]>>

CylinderCombos == "area" :> <<0>>

LinearCombos == "first" :> <<0>> @@ "swap" :> <<1, 0>>

Solvers ==
    { ErrorSolver(CylinderEquations, CylinderCombos, DefaultTol),
      ErrorSolverPy(CylinderEquations, set_partials(CylinderEquations), NoCombos, DefaultTol),
      ErrorSolver(OhmEquations, NoCombos, DefaultTol),
      ErrorSolver(ProductEquations, NoCombos, One),
      ErrorSolver(LinearEquations, LinearCombos, DefaultTol) }

\* All mappings whose keys are some of the keys of choices, each key
\* mapped to one of its choices.
Maps(choices) ==
    UNION {{f \in [K -> UNION {choices[k] : k \in K}] : \A k \in K : f[k] \in choices[k]} :
           K \in SUBSET DOMAIN choices}

Ints == {RInt(i) : i \in 0..MaxInt}

\* The values a call may supply, by solver.
ValueChoices(self) ==
    CASE self.equations = CylinderEquations ->
            "A" :> {<<3927, 50>>} @@ "V" :> {<<23562, 25>>, RInt(900)}
            @@ "h" :> {RInt(12)} @@ "r" :> {RInt(5)}
      [] self.equations = AreaEquations ->
            "A" :> {<<3927, 50>>} @@ "r" :> {RInt(5)} @@ "pi" :> {RInt(3)}
      [] self.equations = OhmEquations ->
            "V" :> {RInt(2)} @@ "R" :> {RInt(2)} @@ "I" :> {One}
      [] self.equations = ProductEquations ->
            "x" :> Ints @@ "y" :> Ints @@ "z" :> Ints
      [] self.equations = LinearEquations ->
            "x" :> {One} @@ "y" :> {One} @@ "a" :> {RInt(2)} @@ "b" :> {RInt(4)}
      [] self.equations = MixEquations ->
            "x" :> {RInt(2)} @@ "y" :> {One} @@ "a" :> {RInt(3)} @@ "b" :> {One}

\* The errors a call may supply, by solver.
ErrorChoices(self) ==
    CASE self.equations = CylinderEquations ->
            [k \in {"A", "V", "h", "r"} |-> {<<1, 20>>}]
      [] self.equations = AreaEquations ->
            [k \in {"A", "r", "pi"} |-> {<<1, 20>>}]
      [] self.equations = OhmEquations ->
            [k \in {"V", "R", "I", "pi"} |-> {<<1, 20>>}]
      [] self.equations = ProductEquations ->
            "x" :> {Zero, RInt(-1)} @@ "y" :> {One} @@ "z" :> {<<1, 2>>}
      [] self.equations = LinearEquations ->
            [k \in {"x", "y", "a", "b"} |-> {<<1, 20>>}]
      [] self.equations = MixEquations ->
            "x" :> {<<3, 10>>, <<-3, 10>>} @@ "y" :> {<<1, 10>>}
            @@ "a" :> {<<1, 10>>} @@ "b" :> {<<1, 10>>}

\* The constant errors a call may supply, by solver.
ConstChoices(self) ==
    CASE self.equations = CylinderEquations /\ self.kind = "sym" ->
            {<<>>, "h" :> Zero, "r" :> <<1, 100>> @@ "V" :> <<1, 100>>}
      [] self.equations = MixEquations ->
            {<<>>, "x" :> Zero @@ "a" :> Zero,
             "x" :> <<-2, 5>> @@ "a" :> <<1, 5>> @@ "c" :> One}
      [] OTHER -> {<<>>}

\* The modes a call may ask for, by solver.
StdevChoices(self) ==
    IF self.equations \in {ProductEquations, LinearEquations, MixEquations} THEN BOOLEAN
    ELSE {FALSE}

\* ------------------------------------------------------------------------
\* State: one solver and the solve call in progress on it
\* ------------------------------------------------------------------------

VARIABLES
    solver,   \* the solver object
    values,   \* the arguments of the call in progress
    errors,
    const,
    combo,
    check,
    stdev,
    pc,       \* where the call is
    steps,    \* the steps the call has run, in order
    val,      \* the unknown-error variables, once classified
    err,      \* the known-error variables, once classified
    jac,      \* the Jacobian, once built
    jui,      \* abs of the inverse of its unknown block, once inverted
    result,   \* the data frame solve returned, as a sequence of rows
    error,    \* the exception the call raised, "" when none
    errinfo   \* what the exception's message names

\* A second call with the arguments of the first
VARIABLES
    first     \* how the first of the two calls ended, once it has

\* The variable queries of the first interface (error_solver/_base_error_solver.py)
VARIABLES
    qequations,  \* the equations of the solver that is asked
    qvalues,     \* the values mapping passed to the queries
    qerrors,     \* the errors mapping passed to the queries
    queried      \* the answers given so far, by query name

\* ErrorSolver._parse_equation at work on one equation string
VARIABLES
    equation,    \* the string given, a sequence of characters
    ppc,         \* where _parse_equation is
    zeroform,    \* what _set_equal_to_zero returned
    expression,  \* what parse_expr returned
    raised       \* the exception raised: its type, message and the string it names

\* An ErrorSolver object from its construction on
VARIABLES
    object,         \* the object: its equations, partials, names, combos and tol
    thrown,         \* the exception its last operation raised
    asked,          \* the combo that get_equations and get_partials are asked for
    equations_got,  \* what get_equations did
    partials_got    \* what get_partials did

\* The reading of a definition file
VARIABLES
    file,           \* the lines of the file
    lineno,         \* the number of lines read
    section,        \* the current section
    data            \* the dictionary that _read_file fills

\* A call of SolverPipeline.solve
VARIABLES
    pipeline,       \* the SolverPipeline: its solvers, links and combos
    given,          \* the arguments of the call
    stage,          \* the index i of the loop over the solvers
    used,           \* the errors passed to solver.solve, stage by stage
    results,        \* the result tables of the stages solved
    status,         \* "running", "returned" or "failed"
    returned,       \* the table returned
    failure         \* the exception that leaves the call

\* The Collector class, the functions it decorates and their caller
VARIABLES
    Collector,      \* the class attributes IS_ACTIVE, CLASS_DICT and FUNC_DICT
    heap,           \* the dictionary objects, by identity
    alive,          \* the objects that the program still refers to
    kept,           \* the dictionaries that the caller holds a reference to
    log,            \* what the caller did: windows, calls, deletions
    outcome         \* what the caller's last operation returned or raised

\* A call of check() on an ErrorSolver of error_solver/solver.py
VARIABLES
    legacy,         \* the solver: its equations, values, errors and tolerance
    method,         \* the index in check_methods of the next check
    checks,         \* what the checks run so far returned
    checked         \* what check() returned or raised

\* Solve calls in progress at the same time on one solver
VARIABLES
    shared,         \* the solver that the callers share
    frames          \* by caller: the mappings it passed and the locals of its call

solveVars == <<solver, values, errors, const, combo, check, stdev, pc, steps,
               val, err, jac, jui, result, error, errinfo>>

queryVars == <<qequations, qvalues, qerrors, queried>>

parseVars == <<equation, ppc, zeroform, expression, raised>>

objectVars == <<object, thrown, asked, equations_got, partials_got>>

fileVars == <<file, lineno, section, data>>

pipelineVars == <<pipeline, given, stage, used, results, status, returned, failure>>

collectorVars == <<Collector, heap, alive, kept, log, outcome>>

legacyVars == <<legacy, method, checks, checked>>

sharedVars == <<shared, frames>>

\* Everything that a solve call does not touch.
others == <<first, queryVars, parseVars, objectVars, fileVars, pipelineVars, collectorVars, legacyVars, sharedVars>>

\* Everything that a variable query does not touch.
exceptQuery == <<solveVars, first, parseVars, objectVars, fileVars, pipelineVars, collectorVars, legacyVars, sharedVars>>

\* Everything that parsing an equation does not touch.
exceptParse == <<solveVars, first, queryVars, objectVars, fileVars, pipelineVars, collectorVars, legacyVars, sharedVars>>

\* Everything that the operations on an ErrorSolver object do not touch.
exceptObject == <<solveVars, first, queryVars, parseVars, fileVars, pipelineVars, collectorVars, legacyVars, sharedVars>>

vars == <<solveVars, others>>

\* No call has ended yet.
NoFirst == first = [ended |-> FALSE]

\* No exception.
NoException == [type |-> "", message |-> "", names |-> <<>>]

\* No equation is being parsed.
NoParse ==
    /\ equation = <<>> /\ ppc = "idle" /\ zeroform = <<>>
    /\ expression = {} /\ raised = NoException

\* No object has been constructed, nothing has been asked.
NoObject == [kind |-> "none"]

NotAsked == [state |-> "not asked", value |-> <<>>, exception |-> ""]

NothingAsked ==
    /\ asked = "not asked" /\ equations_got = NotAsked /\ partials_got = NotAsked

NoObjects ==
    /\ object = NoObject /\ thrown = NoException
    /\ NothingAsked

\* No pipeline is solved.
NoPipeline ==
    /\ pipeline = <<>> /\ given = <<>> /\ stage = 0 /\ used = <<>>
    /\ results = <<>> /\ status = "idle" /\ returned = <<>> /\ failure = NoException

\* No program uses the Collector.
NoCollector ==
    /\ Collector = <<>> /\ heap = <<>> /\ alive = {} /\ kept = {}
    /\ log = <<>> /\ outcome = <<>>

\* No solver of error_solver/solver.py is checked.
NoLegacy ==
    /\ legacy = <<>> /\ method = 0 /\ checks = <<>> /\ checked = <<>>

\* No solver is shared.
NoShared == shared = <<>> /\ frames = <<>>

\* No file is read.
NoFile ==
    /\ file = <<>> /\ lineno = 0 /\ section = <<>> /\ data = <<>>

\* No query is in progress.
NoQueries ==
    /\ qequations = <<>> /\ qvalues = <<>> /\ qerrors = <<>>
    /\ queried = <<>>

args == <<values, errors, const, combo, check, stdev>>

locals == <<val, err, jac, jui, result>>

Init ==
    /\ solver \in {[s EXCEPT !.keyorder = o] : s \in Solvers, o \in KeyOrders}
    /\ values = <<>> /\ errors = <<>> /\ const = <<>>
    /\ combo = NoCombo /\ check = TRUE /\ stdev = FALSE
    /\ pc = "idle" /\ steps = <<>>
    /\ val = <<>> /\ err = <<>>
    /\ jac = <<>> /\ jui = <<>> /\ result = <<>>
    /\ error = "" /\ errinfo = <<>>
    /\ NoFirst
    /\ NoQueries
    /\ NoParse
    /\ NoObjects
    /\ NoFile
    /\ NoPipeline
    /\ NoCollector
    /\ NoLegacy
    /\ NoShared

\* No solver is under a solve call.
NoSolve ==
    /\ solver = <<>>
    /\ values = <<>> /\ errors = <<>> /\ const = <<>>
    /\ combo = NoCombo /\ check = TRUE /\ stdev = FALSE
    /\ pc = "idle" /\ steps = <<>>
    /\ val = <<>> /\ err = <<>>
    /\ jac = <<>> /\ jui = <<>> /\ result = <<>>
    /\ error = "" /\ errinfo = <<>>

\* raise
Raise(exception, info) ==
    /\ pc' = "failed"
    /\ error' = exception
    /\ errinfo' = info

\* The step that follows check number i of check(): the next check, or the
\* rest of solve.
AfterCheck(i) ==
    IF i < Len(check_order(solver)) THEN check_order(solver)[i + 1] ELSE "jacobian"

\* A check of check(): it runs when its turn comes, raises its message or
\* hands over to the next step.
RunCheck(name, message, info) ==
    /\ pc = name
    /\ steps' = Append(steps, name)
    /\ IF message # "" THEN Raise(message, info)
       ELSE /\ pc' = AfterCheck(CHOOSE i \in DOMAIN check_order(solver) :
                                    check_order(solver)[i] = name)
            /\ UNCHANGED <<error, errinfo>>
    /\ UNCHANGED <<solver, args, locals>>
    /\ UNCHANGED others

\* solver.solve(values, errors, const, combo, check, stdev) is called.
Call ==
    /\ pc = "idle"
    /\ values' \in Maps(ValueChoices(solver))
    /\ errors' \in Maps(ErrorChoices(solver))
    /\ const' \in ConstChoices(solver)
    /\ combo' \in {NoCombo} \cup DOMAIN solver.combos
    /\ check' \in BOOLEAN
    /\ stdev' \in StdevChoices(solver)
    /\ pc' = IF check' THEN AfterCheck(0) ELSE "jacobian"
    /\ steps' = <<>>
    /\ UNCHANGED <<solver, locals, error, errinfo>>
    /\ UNCHANGED others

\* ErrorSolver._check_restricted_symbols
CheckRestrictedSymbols ==
    LET inpt == check_restricted_symbols(values, errors)
    IN  RunCheck("check_restricted_symbols",
                 IF inpt # <<>> THEN "RestrictedSymbols" ELSE "", inpt)

\* _check_values
CheckValues ==
    LET r == check_values(solver, values, combo)
    IN  RunCheck("check_values", r[2], <<r[1]>>)

\* _BaseErrorSolver._check_determinancy
CheckDeterminancy ==
    RunCheck("check_determinancy",
             check_determinancy(solver, values, errors, combo), <<>>)

\* solve: used_vars, xk and the call of jacobian
Jacobian ==
    /\ pc = "jacobian"
    /\ steps' = Append(steps, "jacobian")
    /\ val' = used_vars(solver, values, errors, combo)[1]
    /\ err' = used_vars(solver, values, errors, combo)[2]
    /\ LET e == jacobian_error(solver, values, errors, combo)
       IN  IF e # ""
           THEN /\ Raise(e, <<>>)
                /\ UNCHANGED jac
           ELSE /\ jac' = jacobian(solver, values, errors, combo)
                /\ pc' = "inv"
                /\ UNCHANGED <<error, errinfo>>
    /\ UNCHANGED <<solver, args, jui, result>>
    /\ UNCHANGED others

\* An inversion that gives up on a block that is not square instead of
\* raising, and lets the call go on.
Invert_any_shape ==
    /\ pc = "inv"
    /\ steps' = Append(steps, "inv")
    /\ LET ju == Cols(jac, 1, Len(val))
       IN  IF ~IsSquareMatrix(ju)
           THEN jui' = <<>> /\ pc' = "table" /\ UNCHANGED <<error, errinfo>>
           ELSE IF inv_error(ju) # ""
           THEN Raise(inv_error(ju), <<>>) /\ UNCHANGED jui
           ELSE /\ jui' = MAbs(Inverse(ju))
                /\ pc' = "table"
                /\ UNCHANGED <<error, errinfo>>
    /\ UNCHANGED <<solver, args, val, err, jac, result>>
    /\ UNCHANGED others

\* solve: ju, jk = jac[:,:n], jac[:,n:n+m]; jui = np.abs(np.linalg.inv(ju))
Invert ==
    /\ pc = "inv"
    /\ steps' = Append(steps, "inv")
    /\ LET ju == Cols(jac, 1, Len(val))
       IN  IF inv_error(ju) # ""
           THEN Raise(inv_error(ju), <<>>) /\ UNCHANGED jui
           ELSE /\ jui' = MAbs(Inverse(ju))
                /\ pc' = "table"
                /\ UNCHANGED <<error, errinfo>>
    /\ UNCHANGED <<solver, args, val, err, jac, result>>
    /\ UNCHANGED others

\* solve: the propagation and the data frame
Table ==
    /\ pc = "table"
    /\ steps' = Append(steps, "table")
    /\ LET xu == unknown_errors(jac, jui, val, err, errors, const, stdev)
           xk == known_errors(err, errors, const, stdev)
       IN  IF ~(Range(err) \subseteq DOMAIN values)
           THEN Raise("KeyError", <<>>) /\ UNCHANGED result
           ELSE /\ result' = sort_values(table_rows(val, err, values, xu, xk, stdev))
                /\ pc' = "done"
                /\ UNCHANGED <<error, errinfo>>
    /\ errors' = errors_after(errors, err, const, stdev)
    /\ UNCHANGED <<solver, values, const, combo, check, stdev, val, err, jac, jui>>
    /\ UNCHANGED others

\* The call has returned or raised; the solver is ready for the next call.
Return ==
    /\ pc \in {"done", "failed"}
    /\ values' = <<>> /\ errors' = <<>> /\ const' = <<>>
    /\ combo' = NoCombo /\ check' = TRUE /\ stdev' = FALSE
    /\ pc' = "idle" /\ steps' = <<>>
    /\ val' = <<>> /\ err' = <<>>
    /\ jac' = <<>> /\ jui' = <<>> /\ result' = <<>>
    /\ error' = "" /\ errinfo' = <<>>
    /\ UNCHANGED solver
    /\ UNCHANGED others

Next ==
    \/ Call
    \/ CheckRestrictedSymbols
    \/ CheckValues
    \/ CheckDeterminancy
    \/ Jacobian
    \/ Invert
    \/ Table
    \/ Return

Spec == Init /\ [][Next]_vars

\* ------------------------------------------------------------------------
\* What the claims speak of
\* ------------------------------------------------------------------------

InCall == pc # "idle"

Ran(step) == \E i \in DOMAIN steps : steps[i] = step

\* The indices (from 1) of the active equations: all, or the combo's.
ActiveIndices ==
    IF combo = NoCombo THEN DOMAIN solver.equations
    ELSE {solver.combos[combo][i] + 1 : i \in DOMAIN solver.combos[combo]}

NumActive ==
    IF combo = NoCombo THEN Len(solver.equations) ELSE Len(solver.combos[combo])

EquationVariables == UNION {FreeSymbols(solver.equations[i]) : i \in ActiveIndices}

KnownSet == EquationVariables \cap DOMAIN errors

UnknownSet == (EquationVariables \cap DOMAIN values) \ DOMAIN errors

\* The names of the model in ascending order, as Python's sorted gives them.
NameOrder == <<"A", "I", "R", "V", "a", "b", "h", "pi", "r", "x", "y", "z">>

Position(name) == CHOOSE i \in DOMAIN NameOrder : NameOrder[i] = name

Ascending(names) ==
    \A i, j \in DOMAIN names : i < j => Position(names[i]) < Position(names[j])

\* The names the expression grammar reads as mathematical constants.
MathConstants == {"I", "pi"}

RestrictedViolated == (DOMAIN values \cup DOMAIN errors) \cap MathConstants # {}

ValuesViolated ==
    \E i \in ActiveIndices : value_status(solver, solver.equations[i], values) # ""

DeterminacyViolated == Cardinality(UnknownSet) # NumActive

ValueErrors == {"MissingValues", "ToleranceExceeded", "TypeError"}

\* ------------------------------------------------------------------------
\* C1
\* ------------------------------------------------------------------------

\* C1 (as amended): in a solve call with check=True on either solver, when
\* the number of unknown-error variables differs from the number of active
\* equations the Jacobian is never built or inverted and no table is
\* returned; the call fails with the determinacy error when the determinacy
\* check is reached, and with the error of the earlier check that stopped
\* it otherwise.
C1_Determinacy ==
    (InCall /\ check /\ DeterminacyViolated) =>
        /\ ~Ran("jacobian") /\ ~Ran("inv") /\ ~Ran("table")
        /\ pc \notin {"jacobian", "inv", "table", "done"}
        /\ jac = <<>> /\ jui = <<>> /\ result = <<>>
        /\ pc = "failed" =>
             IF Ran("check_determinancy") THEN error = "Indeterminant"
             ELSE error \in ValueErrors \cup {"RestrictedSymbols"}

\* C1 (as stated): whenever the counts differ the failure is the
\* determinacy error.
C1_Original ==
    (InCall /\ check /\ DeterminacyViolated /\ pc = "failed") =>
        error = "Indeterminant"

\* C1: a checked call on an ErrorSolverPy with more unknowns than equations
\* has failed with the determinacy error.
C1_Witness ==
    /\ check /\ pc = "failed" /\ error = "Indeterminant"
    /\ solver.kind = "py"
    /\ Cardinality(UnknownSet) > NumActive

\* ------------------------------------------------------------------------
\* C2
\* ------------------------------------------------------------------------

AllSteps ==
    <<"check_restricted_symbols", "check_values", "check_determinancy",
      "jacobian", "inv", "table">>

\* C2: a checked call on an ErrorSolver runs the restricted-symbol check,
\* the residual check and the determinacy check in that order and raises at
\* the first one violated; the checks after it are not run.
C2_CheckOrder ==
    (InCall /\ check /\ solver.kind = "sym") =>
        /\ steps = SubSeq(AllSteps, 1, Len(steps))
        /\ RestrictedViolated =>
             /\ Len(steps) <= 1
             /\ pc = "failed" => error = "RestrictedSymbols"
        /\ (~RestrictedViolated /\ ValuesViolated) =>
             /\ Len(steps) <= 2
             /\ pc = "failed" => error \in ValueErrors
        /\ (~RestrictedViolated /\ ~ValuesViolated /\ DeterminacyViolated) =>
             /\ Len(steps) <= 3
             /\ pc = "failed" => error = "Indeterminant"

\* C2: a call that violates all three checks has failed at the first.
C2_Witness ==
    /\ check /\ solver.kind = "sym" /\ pc = "failed"
    /\ RestrictedViolated /\ ValuesViolated /\ DeterminacyViolated
    /\ error = "RestrictedSymbols" /\ steps = <<"check_restricted_symbols">>

\* ------------------------------------------------------------------------
\* C3
\* ------------------------------------------------------------------------

ActiveEq(i) ==
    IF combo = NoCombo THEN solver.equations[i]
    ELSE solver.equations[solver.combos[combo][i] + 1]

\* e1 - e2
ExprSub(e1, e2) ==
    Collect([x \in ({1} \X e1) \cup ({2} \X e2) |->
        IF x[1] = 1 THEN x[2] ELSE Term(RNeg(x[2].c), x[2].m)])

\* values with v moved by d from its value (from 0 when it has none).
Moved(v, d) ==
    [k \in DOMAIN values \cup {v} |->
        IF k = v THEN RAdd(Get(values, v, Zero), RInt(d)) ELSE values[k]]

\* The derivative of eq by v at values, as the central difference
\* (eq(v + 1) - eq(v - 1)) / 2, which is exact for the equations of the
\* model (none has a degree above 2 in a variable).
DerivativeAt(eq, v) ==
    RDiv(FloatOf(Evalf(ExprSub(Subs(eq, Moved(v, 1)), Subs(eq, Moved(v, -1))))),
         RInt(2))

\* C4: the matrix jacobian returns has one row for each active equation and
\* one column for each classified variable, the sorted unknown-error ones
\* first and the sorted known-error ones after them; a cell holds the
\* derivative of its equation by its variable at values when the variable
\* occurs in the equation, and 0 otherwise; the unknown block of a
\* determinate system is square.
C4_Jacobian ==
    jac # <<>> =>
        LET cols == val \o err
        IN  /\ Range(val) = UnknownSet /\ Range(err) = KnownSet
            /\ Ascending(val) /\ Ascending(err)
            /\ Len(jac) = NumActive
            /\ \A i \in DOMAIN jac :
                 /\ Len(jac[i]) = Cardinality(UnknownSet) + Cardinality(KnownSet)
                 /\ \A j \in DOMAIN jac[i] :
                      jac[i][j] = IF cols[j] \in FreeSymbols(ActiveEq(i))
                                  THEN DerivativeAt(ActiveEq(i), cols[j])
                                  ELSE Zero
            /\ ~DeterminacyViolated => IsSquareMatrix(Cols(jac, 1, Len(val)))

CylinderValues ==
    "A" :> <<3927, 50>> @@ "V" :> <<23562, 25>> @@ "h" :> RInt(12) @@ "r" :> RInt(5)

CylinderCase ==
    /\ solver.equations = CylinderEquations /\ combo = NoCombo
    /\ values = CylinderValues
    /\ errors = "h" :> <<1, 20>> @@ "r" :> <<1, 20>>

\* C4: the Jacobian of the cylinder at h = 12, r = 5, columns A, V, h, r.
C4_Witness ==
    /\ CylinderCase
    /\ jac = << <<One, Zero, Zero, <<-3550, 113>> >>,
                <<RInt(-12), One, <<-3927, 50>>, Zero>> >>

\* ------------------------------------------------------------------------
\* C5
\* ------------------------------------------------------------------------

RECURSIVE RSum(_, _)
RSum(f, S) ==
    IF S = {} THEN Zero
    ELSE LET i == CHOOSE k \in S : TRUE
         IN  RAdd(f[i], RSum(f, S \ {i}))

IsInverse(x, a) ==
    \A i, j \in DOMAIN a :
        RSum([k \in DOMAIN a |-> RMul(x[i][k], a[k][j])], DOMAIN a)
            = IF i = j THEN One ELSE Zero

Row(name) == result[CHOOSE i \in DOMAIN result : result[i].var = name]

\* floor(x * 10^k) of a rational x >= 0, by long division.
RECURSIVE FloorScaledFrom(_, _, _, _)
FloorScaledFrom(q, r, d, k) ==
    IF k = 0 THEN q
    ELSE FloorScaledFrom(10 * q + (10 * r) \div d, (10 * r) % d, d, k - 1)

FloorScaled(x, k) == FloorScaledFrom(x[1] \div x[2], x[1] % x[2], x[2], k)

\* C5: in tolerance mode without constant errors the error of unknown
\* variable i is sum_j |Ju^-1|[i][j] * sum_k |Jk|[j][k] * |xk[k]|; for the
\* cylinder at h = 12, r = 5 with errors of 0.05 on h and r the row of V has
\* an error within 1% of 22.78, a percent error within 1% of 2.42 and
\* is_calc true.
C5_Tolerance ==
    (pc = "done" /\ ~stdev /\ DOMAIN const = {}) =>
        LET n == Len(val)
            ju == Cols(jac, 1, n)
            jk == Cols(jac, n + 1, n + Len(err))
            inv == Inverse(ju)
        IN  /\ IsInverse(inv, ju)
            /\ \A i \in DOMAIN val :
                 Row(val[i]).error =
                    RSum([j \in 1..n |->
                            RMul(RAbs(inv[i][j]),
                                 RSum([k \in DOMAIN err |->
                                         RMul(RAbs(jk[j][k]), RAbs(errors[err[k]]))],
                                      DOMAIN err))],
                         1..n)
            /\ CylinderCase =>
                 /\ FloorScaled(Row("V").error, 4) \in 225522..230077
                 /\ FloorScaled(Row("V").pct_error, 4) \in 23958..24441
                 /\ Row("V").is_calc

\* C5: the cylinder has been solved in tolerance mode without constants.
C5_Witness ==
    /\ pc = "done" /\ ~stdev /\ DOMAIN const = {} /\ CylinderCase
    /\ Row("V").error = <<2573751, 113000>>

\* ------------------------------------------------------------------------
\* C6
\* ------------------------------------------------------------------------

Residual(i) == Evalf(Subs(ActiveEq(i), values))

Resolved(i) == FreeSymbols(Residual(i)) = {}

\* |residual|^2 of a resolved residual, the parts being the coefficients
\* of 1 and of I.
MagnitudeSquared(e) ==
    LET part(mm) == SumCoef({t \in e : t.m = mm})
    IN  RAdd(Square(part(<<>>)), Square(part("I" :> 1)))

WithinTol(i) == RLeq(MagnitudeSquared(Residual(i)), Square(solver.tol))

BadEquations == {i \in 1..NumActive : ~(Resolved(i) /\ WithinTol(i))}

FailedAt(step) ==
    pc = "failed" /\ steps # <<>> /\ steps[Len(steps)] = step

Offending == (DOMAIN values \cup DOMAIN errors) \cap MathConstants

C8_Table ==
    pc = "done" =>
        /\ {result[i].var : i \in DOMAIN result} = UnknownSet \cup KnownSet
        /\ Len(result) = Cardinality(UnknownSet \cup KnownSet)
        /\ Ascending([i \in DOMAIN result |-> result[i].var])
        /\ \A i \in DOMAIN result :
             /\ result[i].value = values[result[i].var]
             /\ result[i].is_calc <=> result[i].var \in UnknownSet

\* C8: a table whose unknown-error variables do not all sort before the
\* known-error ones.
C8_Witness ==
    /\ pc = "done"
    /\ val = <<"V", "r">> /\ err = <<"A", "h">>
    /\ [i \in DOMAIN result |-> result[i].var] = <<"A", "V", "h", "r">>

\* ------------------------------------------------------------------------
\* C9
\* ------------------------------------------------------------------------

\* The square of a reported number.
SquareOf(x) == IF Len(x) = 2 THEN Square(x) ELSE <<x[1], x[2]>>

\* C9: in every row of the table pct_error is 100 * |error / value| when
\* the value is not 0, and NaN when it is 0.
C9_PctError ==
    pc = "done" =>
        \A i \in DOMAIN result :
            LET r == result[i]
            IN  IF r.value = Zero THEN r.pct_error = NaN
                ELSE IF Len(r.error) = 2
                THEN r.pct_error = RMul(RInt(100), RAbs(RDiv(r.error, r.value)))
                ELSE /\ ~IsNaN(r.pct_error)
                     /\ r.pct_error[1] >= 0
                     /\ SquareOf(r.pct_error) =
                          RDiv(RMul(RInt(10000), SquareOf(r.error)), Square(r.value))

\* C9: a table with a row of value 0 and an error that is not 0, and a row
\* of value 0 and error 0.
C9_Witness ==
    /\ pc = "done"
    /\ \E i, j \in DOMAIN result :
         /\ result[i].value = Zero /\ result[i].error # Zero
         /\ result[j].value = Zero /\ result[j].error = Zero
         /\ result[i].pct_error = NaN /\ result[j].pct_error = NaN

\* ------------------------------------------------------------------------
\* C10
\* ------------------------------------------------------------------------

\* The unknown block of the Jacobian.
Ju == Cols(jac, 1, Len(val))

\* A square matrix is singular when it sends a vector that is not 0 to 0;
\* for the matrices of the model a vector of -1, 0 and 1 does.
Singular(a) ==
    /\ IsSquareMatrix(a)
    /\ \E c \in [DOMAIN a -> {-1, 0, 1}] :
         /\ \E j \in DOMAIN a : c[j] # 0
         /\ \A i \in DOMAIN a :
              RSum([j \in DOMAIN a |-> RMul(a[i][j], RInt(c[j]))], DOMAIN a) = Zero

Outcome ==
    [ended |-> TRUE, error |-> error, errinfo |-> errinfo, result |-> result]

\* The solvers that are called twice.
TwiceSolvers ==
    {s \in Solvers : s.kind = "sym" /\ s.equations \in {CylinderEquations, OhmEquations}}

InitTwice == Init /\ [solver EXCEPT !.keyorder = "ascending"] \in TwiceSolvers

\* The first call has returned or raised, and the caller calls solve again
\* with the same objects as arguments: the locals of the new call are new.
CallAgain ==
    /\ pc \in {"done", "failed"}
    /\ ~first.ended
    /\ first' = Outcome
    /\ pc' = IF check THEN AfterCheck(0) ELSE "jacobian"
    /\ steps' = <<>>
    /\ val' = <<>> /\ err' = <<>>
    /\ jac' = <<>> /\ jui' = <<>> /\ result' = <<>>
    /\ error' = "" /\ errinfo' = <<>>
    /\ UNCHANGED <<solver, args>>
    /\ UNCHANGED <<queryVars, parseVars, objectVars, fileVars, pipelineVars, collectorVars, legacyVars, sharedVars>>

NextTwice ==
    \/ Call
    \/ CheckRestrictedSymbols
    \/ CheckValues
    \/ CheckDeterminancy
    \/ Jacobian
    \/ Invert
    \/ Table
    \/ CallAgain

SpecTwice == InitTwice /\ [][NextTwice]_vars

\* ------------------------------------------------------------------------
\* C12
\* ------------------------------------------------------------------------

\* C12: when the second of two solve calls with the same values, errors,
\* const, combo, check and stdev on the same solver has ended, it has ended
\* as the first did: with the same exception, or with the same table row
\* for row.
C12_Idempotent ==
    (first.ended /\ pc \in {"done", "failed"}) => Outcome = first

\* C12: a second call with constant errors has returned its table.
C12_Witness ==
    /\ first.ended
    /\ pc = "done"
    /\ DOMAIN const # {}
    /\ \E i \in DOMAIN result : result[i].is_calc /\ result[i].error # Zero

\* ------------------------------------------------------------------------
\* An ErrorSolver and the ErrorSolverPy written from it
\* ------------------------------------------------------------------------

\* The ErrorSolverPy made from the module that python_str writes for an
\* ErrorSolver: the same equations and partials as functions of the free
\* symbols of each equation, the same combos, and the same tolerance; the
\* dicts of partials are written in the order of the keys of the originals.
from_module(self) ==
    [ErrorSolverPy(self.equations, self.partials, self.combos, self.tol)
        EXCEPT !.keyorder = self.keyorder]

\* check(): the exception it raises, "" when every check passes.
check_error(self, vals, errs, cmb) ==
    LET order == check_order(self)
        message(name) ==
            CASE name = "check_restricted_symbols" ->
                    IF check_restricted_symbols(vals, errs) # <<>>
                    THEN "RestrictedSymbols" ELSE ""
              [] name = "check_values" -> check_values(self, vals, cmb)[2]
              [] name = "check_determinancy" -> check_determinancy(self, vals, errs, cmb)
        bad == {i \in DOMAIN order : message(order[i]) # ""}
    IN  IF bad = {} THEN ""
        ELSE message(order[CHOOSE i \in bad : \A j \in bad : i <= j])

\* solve(): the exception it raises or the table it returns, and the
\* Jacobian it built.
solve(self, vals, errs, cst, cmb, chk, sd) ==
    LET failed(e) == [error |-> e, jac |-> <<>>, result |-> <<>>]
        uv == used_vars(self, vals, errs, cmb)
        j == jacobian(self, vals, errs, cmb)
        ju == Cols(j, 1, Len(uv[1]))
        xu == unknown_errors(j, MAbs(Inverse(ju)), uv[1], uv[2], errs, cst, sd)
        xk == known_errors(uv[2], errs, cst, sd)
    IN  IF chk /\ check_error(self, vals, errs, cmb) # ""
        THEN failed(check_error(self, vals, errs, cmb))
        ELSE IF jacobian_error(self, vals, errs, cmb) # ""
        THEN failed(jacobian_error(self, vals, errs, cmb))
        ELSE IF inv_error(ju) # ""
        THEN failed(inv_error(ju))
        ELSE IF ~(Range(uv[2]) \subseteq DOMAIN vals)
        THEN failed("KeyError")
        ELSE [error |-> "", jac |-> j,
              result |-> sort_values(table_rows(uv[1], uv[2], vals, xu, xk, sd))]

\* The ErrorSolvers that are compared with the ErrorSolverPy written from
\* them.
TwinSolvers ==
    { ErrorSolver(AreaEquations, NoCombos, DefaultTol),
      ErrorSolver(ProductEquations, NoCombos, One) }

InitTwin ==
    /\ solver \in {[s EXCEPT !.keyorder = o] : s \in TwinSolvers, o \in KeyOrders}
    /\ values = <<>> /\ errors = <<>> /\ const = <<>>
    /\ combo = NoCombo /\ check = TRUE /\ stdev = FALSE
    /\ pc = "idle" /\ steps = <<>>
    /\ val = <<>> /\ err = <<>>
    /\ jac = <<>> /\ jui = <<>> /\ result = <<>>
    /\ error = "" /\ errinfo = <<>>
    /\ NoFirst
    /\ NoQueries
    /\ NoParse
    /\ NoObjects
    /\ NoFile
    /\ NoPipeline
    /\ NoCollector
    /\ NoLegacy
    /\ NoShared

SpecTwin == InitTwin /\ [][Next]_vars

\* ------------------------------------------------------------------------
\* C13
\* ------------------------------------------------------------------------

Ended == pc \in {"done", "failed"}

\* What the ErrorSolverPy written from the solver does with the arguments
\* of the call.
Twin == solve(from_module(solver), values, errors, const, combo, check, stdev)

\* The kind of violation an exception reports.
ViolationKind(e) ==
    CASE e = "" -> "none"
      [] e = "RestrictedSymbols" -> "restricted"
      [] e = "ToleranceExceeded" -> "tolerance"
      [] e = "Indeterminant" -> "indeterminate"
      [] e = "LinAlgError" -> "singular"
      [] OTHER -> "missing"

CheckKind(self) == ViolationKind(check_error(self, values, errors, combo))

JacobianOutcome(self) ==
    IF jacobian_error(self, values, errors, combo) # ""
    THEN [kind |-> ViolationKind(jacobian_error(self, values, errors, combo)),
          matrix |-> <<>>]
    ELSE [kind |-> "none", matrix |-> jacobian(self, values, errors, combo)]

AllValued == EquationVariables \subseteq DOMAIN values

equation_variables(eqs) == UNION {FreeSymbols(eqs[i]) : i \in DOMAIN eqs}

\* used_variables without the removal of the known-error variables.
used_variables_overlap(eqs, vals, errs) ==
    LET eq_vars == equation_variables(eqs)
        err_vars == eq_vars \cap DOMAIN errs
        val_vars == eq_vars \cap DOMAIN vals
    IN  <<Sorted(val_vars), Sorted(err_vars)>>

\* _BaseErrorSolver.used_variables: <<value_variables, error_variables>>
used_variables(eqs, vals, errs) ==
    LET eq_vars == equation_variables(eqs)
        err_vars == eq_vars \cap DOMAIN errs
        val_vars == (eq_vars \cap DOMAIN vals) \ err_vars
    IN  <<Sorted(val_vars), Sorted(err_vars)>>

\* _BaseErrorSolver.unused_variables
unused_variables(eqs, vals, errs) ==
    LET eq_vars == equation_variables(eqs)
        var == DOMAIN vals \cup DOMAIN errs
    IN  var \ eq_vars

\* _BaseErrorSolver.missing_variables
missing_variables(eqs, vals, errs) ==
    LET eq_vars == equation_variables(eqs)
        uv == used_variables(eqs, vals, errs)
    IN  (eq_vars \ Range(uv[1])) \ Range(uv[2])

\* The equation sets and the keys the queries are asked about.
QueryEquations == {CylinderEquations, ProductEquations}

QueryNames == {"A", "h", "r", "x", "z"}

QueryMaps == {[k \in K |-> One] : K \in SUBSET QueryNames}

InitQueries ==
    /\ NoSolve
    /\ NoFirst
    /\ NoParse
    /\ NoObjects
    /\ NoFile
    /\ NoPipeline
    /\ NoCollector
    /\ NoLegacy
    /\ NoShared
    /\ qequations \in QueryEquations
    /\ qvalues \in QueryMaps
    /\ qerrors \in QueryMaps
    /\ queried = <<>>

\* A query returns its answer.
Answer(name, answer) ==
    /\ name \notin DOMAIN queried
    /\ queried' = queried @@ (name :> answer)
    /\ UNCHANGED <<qequations, qvalues, qerrors>>
    /\ UNCHANGED exceptQuery

UsedVariables ==
    Answer("used_variables", used_variables(qequations, qvalues, qerrors))

UnusedVariables ==
    Answer("unused_variables", unused_variables(qequations, qvalues, qerrors))

MissingVariables ==
    Answer("missing_variables", missing_variables(qequations, qvalues, qerrors))

NextQueries ==
    \/ UsedVariables
    \/ UnusedVariables
    \/ MissingVariables

SpecQueries == InitQueries /\ [][NextQueries]_vars

\* ------------------------------------------------------------------------
\* C11
\* ------------------------------------------------------------------------

AllQueried ==
    DOMAIN queried = {"used_variables", "unused_variables", "missing_variables"}

UnknownAnswered == Range(queried["used_variables"][1])

KnownAnswered == Range(queried["used_variables"][2])

QueryEquationVariables ==
    UNION {UNION {DOMAIN t.m : t \in qequations[i]} : i \in DOMAIN qequations}
        \ {"pi", "I"}

\* C11: for the same equations, values and errors, the known-error and
\* unknown-error variables answered by used_variables are disjoint, their
\* union without the unused variables is the set of equation variables
\* without the missing ones, no unused variable is an equation variable and
\* every missing variable is one; the lists are sorted.
C11_Classification ==
    AllQueried =>
        /\ KnownAnswered \cap UnknownAnswered = {}
        /\ (KnownAnswered \cup UnknownAnswered) \ queried["unused_variables"]
               = QueryEquationVariables \ queried["missing_variables"]
        /\ queried["unused_variables"] \cap QueryEquationVariables = {}
        /\ queried["missing_variables"] \subseteq QueryEquationVariables
        /\ queried["unused_variables"] \subseteq DOMAIN qvalues \cup DOMAIN qerrors

\* C11: the three queries have answered for a cylinder whose values and
\* errors share a key, pass a key no equation has, and leave a variable out.
C11_Witness ==
    /\ AllQueried
    /\ qequations = CylinderEquations
    /\ "r" \in DOMAIN qvalues \cap DOMAIN qerrors
    /\ "A" \in UnknownAnswered
    /\ "x" \in queried["unused_variables"]
    /\ "V" \in queried["missing_variables"]

\* ------------------------------------------------------------------------
\* Equation strings: _set_equal_to_zero and _parse_equation
\* ------------------------------------------------------------------------
\* A string is a sequence of characters.

MaxLen == 5

Letters == {"x"}

Digits == {"0", "1"}

\* str.split(sep): the pieces between the occurrences of sep.
RECURSIVE split(_, _)
split(s, sep) ==
    IF \A i \in DOMAIN s : s[i] # sep THEN <<s>>
    ELSE LET i == CHOOSE j \in DOMAIN s : s[j] = sep /\ \A k \in 1..(j - 1) : s[k] # sep
         IN  <<SubSeq(s, 1, i - 1)>> \o split(SubSeq(s, i + 1, Len(s)), sep)

\* '({})-({})'.format(a, b)
format(a, b) == <<"(">> \o a \o <<")", "-", "(">> \o b \o <<")">>

\* '{}-{}'.format(a, b)
format_bare(a, b) == a \o <<"-">> \o b

\* _set_equal_to_zero without the parentheses.
set_equal_to_zero_bare(eq) ==
    LET s == split(eq, "=")
    IN  IF Len(s) = 1 THEN [raises |-> FALSE, string |-> eq]
        ELSE IF Len(s) = 2 THEN [raises |-> FALSE, string |-> format_bare(s[1], s[2])]
        ELSE [raises |-> TRUE, string |-> <<>>]

\* _set_equal_to_zero: the zero form, or the ValueError for too many equal
\* signs.
set_equal_to_zero(eq) ==
    LET s == split(eq, "=")
    IN  IF Len(s) = 1 THEN [raises |-> FALSE, string |-> eq]
        ELSE IF Len(s) = 2 THEN [raises |-> FALSE, string |-> format(s[1], s[2])]
        ELSE [raises |-> TRUE, string |-> <<>>]

\* The number of leading characters of s that are in S.
RECURSIVE RunLength(_, _)
RunLength(s, S) ==
    IF s = <<>> \/ Head(s) \notin S THEN 0 ELSE 1 + RunLength(Tail(s), S)

\* The tokens of a string: names, numbers and one-character operators.
RECURSIVE tokenize(_)
tokenize(s) ==
    IF s = <<>> THEN <<>>
    ELSE IF Head(s) \in Letters
    THEN LET n == RunLength(s, Letters \cup Digits)
         IN  <<[type |-> "NAME", string |-> SubSeq(s, 1, n)]>>
                 \o tokenize(SubSeq(s, n + 1, Len(s)))
    ELSE IF Head(s) \in Digits
    THEN LET n == RunLength(s, Digits)
         IN  <<[type |-> "NUMBER", string |-> SubSeq(s, 1, n)]>>
                 \o tokenize(SubSeq(s, n + 1, Len(s)))
    ELSE <<[type |-> "OP", string |-> <<Head(s)>>]>> \o tokenize(Tail(s))

DigitValue(c) == CASE c = "0" -> 0 [] c = "1" -> 1

RECURSIVE NumberValue(_)
NumberValue(s) ==
    IF s = <<>> THEN 0
    ELSE 10 * NumberValue(SubSeq(s, 1, Len(s) - 1)) + DigitValue(s[Len(s)])

\* Sums and differences of expressions.
Add(e1, e2) ==
    Collect([x \in ({1} \X e1) \cup ({2} \X e2) |-> x[2]])

Neg(e) == {Term(RNeg(t.c), t.m) : t \in e}

Integer(n) == IF n = 0 THEN {} ELSE {Term(RInt(n), <<>>)}

Symbol(name) == {Term(One, name :> 1)}

\* What a parser returns: whether it read something, what, and the tokens
\* that follow.
Read(e, rest) == [ok |-> TRUE, e |-> e, rest |-> rest]

SyntaxError == [ok |-> FALSE, e |-> {}, rest |-> <<>>]

IsOp(t, ops) == t # <<>> /\ Head(t).type = "OP" /\ Head(t).string[1] \in ops

RECURSIVE arith_expr(_)
RECURSIVE arith_more(_, _)
RECURSIVE factor(_)
RECURSIVE atom(_)

\* atom: NAME | NUMBER | '(' arith_expr ')'
atom(t) ==
    IF t = <<>> THEN SyntaxError
    ELSE IF Head(t).type = "NAME" THEN Read(Symbol(Head(t).string), Tail(t))
    ELSE IF Head(t).type = "NUMBER"
    THEN Read(Integer(NumberValue(Head(t).string)), Tail(t))
    ELSE IF IsOp(t, {"("})
    THEN LET r == arith_expr(Tail(t))
         IN  IF r.ok /\ IsOp(r.rest, {")"}) THEN Read(r.e, Tail(r.rest))
             ELSE SyntaxError
    ELSE SyntaxError

\* factor: ('+' | '-') factor | atom
factor(t) ==
    IF IsOp(t, {"+", "-"})
    THEN LET r == factor(Tail(t))
         IN  IF ~r.ok THEN SyntaxError
             ELSE Read(IF Head(t).string[1] = "-" THEN Neg(r.e) ELSE r.e, r.rest)
    ELSE atom(t)

\* The rest of an arith_expr whose value so far is e.
arith_more(e, t) ==
    IF IsOp(t, {"+", "-"})
    THEN LET r == factor(Tail(t))
         IN  IF ~r.ok THEN SyntaxError
             ELSE arith_more(Add(e, IF Head(t).string[1] = "-" THEN Neg(r.e) ELSE r.e),
                             r.rest)
    ELSE Read(e, t)

\* arith_expr: factor (('+' | '-') factor)*
arith_expr(t) ==
    LET r == factor(t)
    IN  IF ~r.ok THEN SyntaxError ELSE arith_more(r.e, r.rest)

\* sympy's parse_expr of a string: the expression, or an exception when the
\* string is not an expression.
parse_string(s) ==
    LET r == arith_expr(tokenize(s))
    IN  IF r.ok /\ r.rest = <<>> THEN r ELSE SyntaxError

\* The strings that are given: every string of at most MaxLen characters.
Alphabet == {"x", "1", "+", "="}

RECURSIVE Strings(_)
Strings(n) ==
    IF n = 0 THEN {<<>>}
    ELSE Strings(n - 1) \cup {Append(s, c) : s \in {u \in Strings(n - 1) : Len(u) = n - 1}, c \in Alphabet}

InitParse ==
    /\ NoSolve
    /\ NoFirst
    /\ NoQueries
    /\ NoObjects
    /\ NoFile
    /\ NoPipeline
    /\ NoCollector
    /\ NoLegacy
    /\ NoShared
    /\ equation \in Strings(MaxLen)
    /\ ppc = "set_equal_to_zero"
    /\ zeroform = <<>>
    /\ expression = {}
    /\ raised = NoException

\* eq = self._set_equal_to_zero(equation)
SetEqualToZero ==
    /\ ppc = "set_equal_to_zero"
    /\ LET r == set_equal_to_zero(equation)
       IN  IF r.raises
           THEN /\ ppc' = "failed"
                /\ raised' = [type |-> "ValueError",
                              message |-> "Equation has too many equal signs",
                              names |-> equation]
                /\ UNCHANGED zeroform
           ELSE /\ ppc' = "parse_expr"
                /\ zeroform' = r.string
                /\ UNCHANGED raised
    /\ UNCHANGED <<equation, expression>>
    /\ UNCHANGED exceptParse

\* try: eq = parse_expr(eq); except: raise ValueError(...)
ParseExpr ==
    /\ ppc = "parse_expr"
    /\ LET r == parse_string(zeroform)
       IN  IF r.ok
           THEN /\ ppc' = "returned"
                /\ expression' = r.e
                /\ UNCHANGED raised
           ELSE /\ ppc' = "failed"
                /\ raised' = [type |-> "ValueError",
                              message |-> "Failed to parse equation",
                              names |-> equation]
                /\ UNCHANGED expression
    /\ UNCHANGED <<equation, zeroform>>
    /\ UNCHANGED exceptParse

NextParse ==
    \/ SetEqualToZero
    \/ ParseExpr

SpecParse == InitParse /\ [][NextParse]_vars

\* ------------------------------------------------------------------------
\* C14
\* ------------------------------------------------------------------------

EqualSigns == Cardinality({i \in DOMAIN equation : equation[i] = "="})

FirstEqualSign == CHOOSE i \in DOMAIN equation :
                      equation[i] = "=" /\ \A j \in 1..(i - 1) : equation[j] # "="

Lhs == SubSeq(equation, 1, FirstEqualSign - 1)

Rhs == SubSeq(equation, FirstEqualSign + 1, Len(equation))

IsExpression(s) == parse_string(s).ok

\* C14: once _set_equal_to_zero has run, a string without '=' is its own
\* zero form, a string with one '=' has the zero form (lhs)-(rhs), and a
\* string with two or more is rejected with a ValueError naming it; the
\* zero form is parsed, its value being that of the string or that of lhs
\* minus that of rhs, and a zero form that is no expression is rejected with
\* a ValueError naming the string given.
C14_ZeroForm ==
    (ppc \notin {"idle", "set_equal_to_zero"}) =>
        /\ EqualSigns = 0 =>
            /\ zeroform = equation
            /\ ppc = "returned" => expression = parse_string(equation).e
            /\ ppc = "failed" => ~IsExpression(equation)
        /\ EqualSigns = 1 =>
            /\ zeroform = <<"(">> \o Lhs \o <<")", "-", "(">> \o Rhs \o <<")">>
            /\ ppc = "returned" =>
                  expression = Add(parse_string(Lhs).e, Neg(parse_string(Rhs).e))
            /\ ppc = "failed" => ~(IsExpression(Lhs) /\ IsExpression(Rhs))
        /\ EqualSigns >= 2 =>
            /\ ppc = "failed"
            /\ raised.message = "Equation has too many equal signs"
        /\ ppc = "failed" =>
            /\ raised.type = "ValueError"
            /\ raised.names = equation
        /\ ppc = "returned" => raised = NoException

\* C14: an equation with one '=' and a sum on its right side has been
\* parsed.
C14_Witness ==
    /\ ppc = "returned"
    /\ EqualSigns = 1
    /\ Len(Rhs) = 3 /\ Rhs[2] = "+"
    /\ expression # {}

\* ------------------------------------------------------------------------
\* An ErrorSolver object: its construction, set_equations, get_equations and
\* get_partials
\* ------------------------------------------------------------------------

MaxEquations == 2

MaxIndex == 1

\* The indices that a combo may list.
Indices == -1..MaxIndex

MaxComboLen == 2

\* The sum of the exponents that m gives to the symbols of S.
RECURSIVE Exponent(_, _)
Exponent(m, S) ==
    IF S = {} THEN 0
    ELSE LET s == CHOOSE u \in S : TRUE
         IN  m[s] + Exponent(m, S \ {s})

\* eq.subs(self.names) where names maps symbol names to symbol names.
rename(e, names) ==
    LET to(s) == IF s \in DOMAIN names THEN names[s] ELSE s
        renamed(m) == [u \in {to(s) : s \in DOMAIN m} |->
                          Exponent(m, {s \in DOMAIN m : to(s) = u})]
    IN  Collect([t \in e |-> Term(t.c, renamed(t.m))])

\* _parse_equation: the expression, or the ValueError that it raises.
parse_equation(eq) ==
    LET z == set_equal_to_zero(eq)
        r == parse_string(z.string)
    IN  IF z.raises
        THEN [raises |-> "Equation has too many equal signs", e |-> {}]
        ELSE IF ~r.ok THEN [raises |-> "Failed to parse equation", e |-> {}]
        ELSE [raises |-> "", e |-> r.e]

\* set_equations: the list of expressions that is set, or the exception of
\* the first equation string that fails, which leaves the object as it was.
set_equations(names, equations) ==
    LET parsed == [i \in DOMAIN equations |-> parse_equation(equations[i])]
        bad == {i \in DOMAIN equations : parsed[i].raises # ""}
        i0 == CHOOSE i \in bad : \A j \in bad : i <= j
    IN  IF bad # {}
        THEN [raised |-> [type |-> "ValueError", message |-> parsed[i0].raises,
                          names |-> equations[i0]],
              equations |-> <<>>]
        ELSE [raised |-> NoException,
              equations |-> [i \in DOMAIN equations |-> rename(parsed[i].e, names)]]

\* ErrorSolver.__init__ once set_equations has returned: names, combos and
\* tol are stored as they are given.
new(eqs, names, combos, tolerance) ==
    [kind |-> "sym", equations |-> eqs, partials |-> set_partials(eqs),
     names |-> names, combos |-> combos, tol |-> tolerance,
     keyorder |-> "ascending"]

\* list[i] of Python: whether i is an index of a list of n items, and the
\* position (from 1) of the item.
is_index(n, i) == -n <= i /\ i < n

position(n, i) == IF i >= 0 THEN i + 1 ELSE n + i + 1

\* The exception that get_equations and get_partials raise for a combo: a
\* KeyError of self.combos[combo], an IndexError of the list of equations, or
\* none.
get_error(this, cmb) ==
    IF cmb = NoCombo THEN ""
    ELSE IF cmb \notin DOMAIN this.combos THEN "KeyError"
    ELSE IF \E k \in DOMAIN this.combos[cmb] :
                ~is_index(Len(this.equations), this.combos[cmb][k])
    THEN "IndexError"
    ELSE ""

\* [list[i] for i in self.combos[combo]]
items(list, idx) == [k \in DOMAIN idx |-> list[position(Len(list), idx[k])]]

get(this, list, cmb) ==
    IF get_error(this, cmb) # ""
    THEN [state |-> "raised", value |-> <<>>, exception |-> get_error(this, cmb)]
    ELSE [state |-> "returned",
          value |-> IF cmb = NoCombo THEN list ELSE items(list, this.combos[cmb]),
          exception |-> ""]

\* The arguments of the constructor and of set_equations.
EquationStrings ==
    {<<"x", "=", "1">>, <<"x", "x", "+", "1">>, <<"x", "=", "=">>, <<"x", "+">>}

RECURSIVE Lists(_, _)
Lists(S, n) ==
    IF n = 0 THEN {<<>>}
    ELSE Lists(S, n - 1)
             \cup {Append(s, c) : s \in {u \in Lists(S, n - 1) : Len(u) = n - 1}, c \in S}

NameChoices == {<<>>, <<"x">> :> <<"x", "x">>}

ComboChoices == {<<>>} \cup {"a" :> l : l \in Lists(Indices, MaxComboLen) \ {<<>>}}

AskedCombos == {NoCombo, "a", "b"}

InitObject ==
    /\ NoSolve
    /\ NoFirst
    /\ NoQueries
    /\ NoParse
    /\ NoObjects
    /\ NoFile
    /\ NoPipeline
    /\ NoCollector
    /\ NoLegacy
    /\ NoShared

\* ErrorSolver(equations, names, combos)
New ==
    /\ object = NoObject
    /\ thrown = NoException
    /\ \E equations \in Lists(EquationStrings, MaxEquations),
          names \in NameChoices, combos \in ComboChoices :
          \E r \in {set_equations(names, equations)} :
              /\ thrown' = r.raised
              /\ object' = IF r.raised # NoException THEN NoObject
                           ELSE new(r.equations, names, combos, <<1, 100>>)
    /\ UNCHANGED <<asked, equations_got, partials_got>>
    /\ UNCHANGED exceptObject

\* self.set_equations(equations)
SetEquations ==
    /\ object # NoObject
    /\ \E equations \in Lists(EquationStrings, MaxEquations) :
          \E r \in {set_equations(object.names, equations)} :
              /\ thrown' = r.raised
              /\ object' = IF r.raised # NoException THEN object
                           ELSE [object EXCEPT !.equations = r.equations,
                                               !.partials = set_partials(r.equations)]
    /\ asked' = "not asked"
    /\ equations_got' = NotAsked
    /\ partials_got' = NotAsked
    /\ UNCHANGED exceptObject

Ask(cmb) ==
    /\ object # NoObject
    /\ asked \in {"not asked", cmb}
    /\ asked' = cmb
    /\ thrown' = IF get_error(object, cmb) = "" THEN NoException
                 ELSE [type |-> get_error(object, cmb), message |-> "", names |-> <<>>]
    /\ UNCHANGED object
    /\ UNCHANGED exceptObject

\* self.get_equations(combo)
GetEquations ==
    \E cmb \in AskedCombos :
        /\ equations_got = NotAsked
        /\ Ask(cmb)
        /\ equations_got' = get(object, object.equations, cmb)
        /\ UNCHANGED partials_got

\* self.get_partials(combo)
GetPartials ==
    \E cmb \in AskedCombos :
        /\ partials_got = NotAsked
        /\ Ask(cmb)
        /\ partials_got' = get(object, object.partials, cmb)
        /\ UNCHANGED equations_got

NextObject ==
    \/ New
    \/ SetEquations
    \/ GetEquations
    \/ GetPartials

SpecObject == InitObject /\ [][NextObject]_vars

\* ------------------------------------------------------------------------
\* C15
\* ------------------------------------------------------------------------

Registered == asked \in DOMAIN object.combos

\* What the call returned is the list itself for no combo and, for a
\* registered combo, the items of the list at the indices that the combo
\* lists, in the order of the combo.
ReturnedFrom(got, list) ==
    /\ got.state = "returned"
    /\ IF asked = NoCombo THEN got.value = list
       ELSE /\ Len(got.value) = Len(object.combos[asked])
            /\ \A k \in DOMAIN got.value :
                   got.value[k]
                       = list[position(Len(list), object.combos[asked][k])]

\* C15: get_equations(combo) and get_partials(combo) return the full
\* sequences when combo is None; for a registered combo they return the
\* equations and the partial maps at the indices of the combo, in the order
\* of the combo, so that the two results have the same length and correspond
\* position by position; for a combo that is not registered both fail.
C15_Subsequences ==
    (object # NoObject /\ asked # "not asked") =>
        /\ equations_got # NotAsked =>
               IF asked = NoCombo \/ Registered
               THEN ReturnedFrom(equations_got, object.equations)
               ELSE equations_got.state = "raised"
        /\ partials_got # NotAsked =>
               IF asked = NoCombo \/ Registered
               THEN ReturnedFrom(partials_got, object.partials)
               ELSE partials_got.state = "raised"
        /\ (equations_got.state = "returned" /\ partials_got.state = "returned") =>
               /\ Len(equations_got.value) = Len(partials_got.value)
               /\ \A k \in DOMAIN equations_got.value :
                      partials_got.value[k] = set_partials(equations_got.value)[k]

\* ------------------------------------------------------------------------
\* C16
\* ------------------------------------------------------------------------

\* C16: in every state reached by constructing an ErrorSolver and by
\* replacing its equations with set_equations, every index of every
\* registered combo is at least 0 and less than the number of equations.
C16_ValidIndices ==
    object # NoObject =>
        \A c \in DOMAIN object.combos : \A k \in DOMAIN object.combos[c] :
            /\ 0 <= object.combos[c][k]
            /\ object.combos[c][k] < Len(object.equations)

\* ------------------------------------------------------------------------
\* Definition files: _read_file and from_file
\* ------------------------------------------------------------------------
\* A file is a sequence of lines, each a string without its newline.

MaxLines == 4

\* str.strip(): without the spaces at both ends.
RECURSIVE lstrip(_, _)
lstrip(s, c) == IF s # <<>> /\ Head(s) = c THEN lstrip(Tail(s), c) ELSE s

RECURSIVE rstrip(_, _)
rstrip(s, c) ==
    IF s # <<>> /\ s[Len(s)] = c THEN rstrip(SubSeq(s, 1, Len(s) - 1), c) ELSE s

strip(s) == rstrip(lstrip(s, " "), " ")

startswith(s, c) == s # <<>> /\ Head(s) = c

endswith(s, c) == s # <<>> /\ s[Len(s)] = c

\* int(x) of a string of digits; a ValueError otherwise.
int(s) ==
    IF s # <<>> /\ \A i \in DOMAIN s : s[i] \in Digits
    THEN [ok |-> TRUE, value |-> NumberValue(s)]
    ELSE [ok |-> FALSE, value |-> 0]

\* d[k] = v
put(d, k, v) == [x \in DOMAIN d \cup {k} |-> IF x = k THEN v ELSE d[x]]

equations_ == <<"e", "q", "u", "a", "t", "i", "o", "n", "s">>

names_ == <<"n", "a", "m", "e", "s">>

combos_ == <<"c", "o", "m", "b", "o", "s">>

Failure(type, message, about) == [type |-> type, message |-> message, names |-> about]

\* The body of the loop of _read_file for one line: st holds section (<<>>
\* for None, <<name>> otherwise), data and the exception raised.
read_line(st, raw) ==
    LET line == strip(split(raw, "#")[1])
        sec == rstrip(lstrip(line, "["), "]")
        s == [i \in DOMAIN split(line, ":") |-> strip(split(line, ":")[i])]
        v == [i \in DOMAIN split(s[2], " ") |-> int(strip(split(s[2], " ")[i]))]
    IN  IF line = <<>> THEN st
        ELSE IF startswith(line, "[") /\ endswith(line, "]")
        THEN IF sec \in {equations_, names_, combos_}
             THEN [st EXCEPT !.section = <<sec>>, !.data = put(st.data, sec, <<>>)]
             ELSE [st EXCEPT !.raised =
                      Failure("ValueError", "Invalid section header", sec)]
        ELSE IF st.section = <<equations_>>
        THEN [st EXCEPT !.data = put(@, equations_, Append(@[equations_], line))]
        ELSE IF st.section = <<names_>>
        THEN IF Len(s) < 2
             THEN [st EXCEPT !.raised = Failure("IndexError", "", line)]
             ELSE [st EXCEPT !.data = put(@, names_, put(@[names_], s[1], s[2]))]
        ELSE IF st.section = <<combos_>>
        THEN IF Len(s) < 2
             THEN [st EXCEPT !.raised = Failure("IndexError", "", line)]
             ELSE IF \E i \in DOMAIN v : ~v[i].ok
             THEN [st EXCEPT !.raised = Failure("ValueError", "", line)]
             ELSE [st EXCEPT !.data =
                      put(@, combos_, put(@[combos_], s[1],
                                          [i \in DOMAIN v |-> v[i].value]))]
        ELSE st

\* data.get(key, default)
dict_get(d, k, default) == IF k \in DOMAIN d THEN d[k] ELSE default

\* The lines that a file is made of.
Lines ==
    { <<"[">> \o equations_ \o <<"]">>,
      <<"[">> \o names_ \o <<"]", " ", "#", "c">>,
      <<"[">> \o combos_ \o <<"]">>,
      <<"[", "o", "]">>,
      <<"[", "[">> \o names_ \o <<"]", "]">>,
      <<"x", "=", "1">>,
      <<" ", "x", "x", "+", "1", " ", "#", "x">>,
      <<"x", ":", " ", "x", "x">>,
      <<"a", ":", "0", " ", "1">>,
      <<" ", "#", "[", "o", "]">> }

InitFile ==
    /\ NoSolve
    /\ NoFirst
    /\ NoQueries
    /\ NoParse
    /\ NoObjects
    /\ NoPipeline
    /\ NoCollector
    /\ NoLegacy
    /\ NoShared
    /\ file \in Lists(Lines, MaxLines)
    /\ lineno = 0
    /\ section = <<>>
    /\ data = <<>>

exceptFile == <<solveVars, first, queryVars, parseVars, pipelineVars, collectorVars, legacyVars, sharedVars>>

\* for line in fh: ...
ReadLine ==
    /\ lineno < Len(file)
    /\ thrown = NoException
    /\ LET st == read_line([section |-> section, data |-> data, raised |-> NoException],
                           file[lineno + 1])
       IN  /\ section' = st.section
           /\ data' = st.data
           /\ thrown' = st.raised
    /\ lineno' = lineno + 1
    /\ UNCHANGED <<file, object, asked, equations_got, partials_got>>
    /\ UNCHANGED exceptFile

\* return cls(equations=data.get('equations', []), names=data.get('names', {}),
\*            combos=data.get('combos', {}))
FromFile ==
    /\ lineno = Len(file)
    /\ thrown = NoException
    /\ object = NoObject
    /\ LET r == set_equations(dict_get(data, names_, <<>>),
                              dict_get(data, equations_, <<>>))
       IN  /\ thrown' = r.raised
           /\ object' = IF r.raised # NoException THEN NoObject
                        ELSE new(r.equations, dict_get(data, names_, <<>>),
                                 dict_get(data, combos_, <<>>), <<1, 100>>)
    /\ UNCHANGED <<asked, equations_got, partials_got>>
    /\ UNCHANGED fileVars
    /\ UNCHANGED exceptFile

NextFile ==
    \/ ReadLine
    \/ FromFile

SpecFile == InitFile /\ [][NextFile]_vars

\* ------------------------------------------------------------------------
\* C17
\* ------------------------------------------------------------------------

\* Line i without its comment and the spaces around it.
Text(i) ==
    LET hashes == {k \in DOMAIN file[i] : file[i][k] = "#"}
        end == IF hashes = {} THEN Len(file[i])
               ELSE (CHOOSE k \in hashes : \A j \in hashes : k <= j) - 1
    IN  strip(SubSeq(file[i], 1, end))

SectionNames == {equations_, names_, combos_}

Header(name) == <<"[">> \o name \o <<"]">>

IsHeader(i) == \E name \in SectionNames : Text(i) = Header(name)

Bracketed(i) == startswith(Text(i), "[") /\ endswith(Text(i), "]")

\* The last of the first n lines that is the header of one of names (0 when
\* there is none).
LastHeader(n, names) ==
    LET hs == {i \in 1..n : \E name \in names : Text(i) = Header(name)}
    IN  IF hs = {} THEN 0 ELSE CHOOSE i \in hs : \A j \in hs : j <= i

\* The section that is current once n lines are read.
SectionAt(n) ==
    IF LastHeader(n, SectionNames) = 0 THEN <<>>
    ELSE <<SubSeq(Text(LastHeader(n, SectionNames)), 2,
                  Len(Text(LastHeader(n, SectionNames))) - 1)>>

\* The lines among the first n that are read in section name and still count:
\* non-blank lines that are not bracketed, after the last header of that name.
LinesOf(n, name) ==
    {i \in 1..n : /\ Text(i) # <<>>
                  /\ ~Bracketed(i)
                  /\ SectionAt(i - 1) = <<name>>
                  /\ i > LastHeader(n, {name})}

RECURSIVE InOrder(_)
InOrder(S) ==
    IF S = {} THEN <<>>
    ELSE LET m == CHOOSE i \in S : \A j \in S : i <= j
         IN  <<m>> \o InOrder(S \ {m})

\* The key and the value of a line 'key: value'.
Key(i) == strip(split(Text(i), ":")[1])

Value(i) == strip(split(Text(i), ":")[2])

HasColon(i) == \E k \in DOMAIN Text(i) : Text(i)[k] = ":"

\* The last of the lines of S with the key k.
LastWith(S, k) == CHOOSE i \in S : Key(i) = k /\ \A j \in S : Key(j) = k => j <= i

\* A line that its section cannot interpret: no colon in a line of names or
\* combos, or an index of a combo that is not an integer.
Malformed(i) ==
    /\ Text(i) # <<>>
    /\ ~Bracketed(i)
    /\ \/ SectionAt(i - 1) \in {<<names_>>, <<combos_>>} /\ ~HasColon(i)
       \/ /\ SectionAt(i - 1) = <<combos_>> /\ HasColon(i)
          /\ \E k \in DOMAIN split(Value(i), " ") : ~int(strip(split(Value(i), " ")[k])).ok

\* C17: the lines are read in order; comments and blank lines are dropped; a
\* line [equations], [names] or [combos] switches the section; any other
\* bracketed header fails the load; every other line is read as its most
\* recent header says (an equation string, a pair 'original: replacement', a
\* list 'combo: idx idx ...' of integers), and the equations keep their file
\* order.
C17_ReadFile ==
    /\ \A i \in 1..lineno : (Bracketed(i) /\ ~IsHeader(i)) => thrown.type = "ValueError"
    /\ thrown # NoException =>
           \/ thrown.message \in {"Equation has too many equal signs",
                                  "Failed to parse equation"}
           \/ Bracketed(lineno) /\ ~IsHeader(lineno)
           \/ Malformed(lineno)
    /\ (thrown = NoException /\ object = NoObject) =>
           /\ section = SectionAt(lineno)
           /\ \A name \in SectionNames :
                  name \in DOMAIN data <=> LastHeader(lineno, {name}) > 0
           /\ equations_ \in DOMAIN data =>
                  data[equations_]
                      = [k \in DOMAIN InOrder(LinesOf(lineno, equations_)) |->
                            Text(InOrder(LinesOf(lineno, equations_))[k])]
           /\ names_ \in DOMAIN data =>
                  /\ DOMAIN data[names_] = {Key(i) : i \in LinesOf(lineno, names_)}
                  /\ \A k \in DOMAIN data[names_] :
                         data[names_][k] = Value(LastWith(LinesOf(lineno, names_), k))
           /\ combos_ \in DOMAIN data =>
                  /\ DOMAIN data[combos_] = {Key(i) : i \in LinesOf(lineno, combos_)}
                  /\ \A k \in DOMAIN data[combos_] :
                         LET idx == split(Value(LastWith(LinesOf(lineno, combos_), k)), " ")
                         IN  data[combos_][k]
                                 = [j \in DOMAIN idx |-> NumberValue(strip(idx[j]))]

\* ------------------------------------------------------------------------
\* SolverPipeline.solve
\* ------------------------------------------------------------------------
\* A dict of links is the sequence of its items <<from_key, to_key>> in the
\* order of the dict. An optional argument is None or Some(value).

None == [none |-> TRUE]

Some(x) == [none |-> FALSE, value |-> x]

\* SolverPipeline(solvers, links, combos)
SolverPipeline(solvers, links, combos) ==
    [solvers |-> solvers, links |-> links, combos |-> combos]

\* results[-1]['error']: the column of errors of a table, by variable.
error_column(table) ==
    [k \in {table[r].var : r \in DOMAIN table} |->
        table[CHOOSE r \in DOMAIN table : table[r].var = k].error]

\* for k, x in links.items(): err[x] = df[k]
RECURSIVE apply_links(_, _, _)
apply_links(errs, links, df) ==
    IF links = <<>> THEN [raised |-> "", err |-> errs]
    ELSE IF Head(links)[1] \notin DOMAIN df THEN [raised |-> "KeyError", err |-> errs]
    ELSE apply_links(put(errs, Head(links)[2], df[Head(links)[1]]), Tail(links), df)

\* df['solver'] = [i+1] * df.shape[0]
with_solver(table, i) ==
    [r \in DOMAIN table |->
        [var |-> table[r].var, value |-> table[r].value, error |-> table[r].error,
         pct_error |-> table[r].pct_error, is_calc |-> table[r].is_calc,
         solver |-> i + 1]]

\* pd.concat(results)
RECURSIVE concat(_)
concat(tables) == IF tables = <<>> THEN <<>> ELSE Head(tables) \o concat(Tail(tables))

\* err = errors[i] for every solver: the linked errors are written into the
\* caller's mapping.
stage_errors_no_copy(self, call, i, tables) ==
    IF ~call.consts.none THEN [raised |-> "UnboundLocalError", err |-> <<>>, alias |-> 0]
    ELSE IF i = 0 THEN [raised |-> "", err |-> call.errors[1], alias |-> 1]
    ELSE LET e == apply_links(call.errors[i + 1], self.links[i],
                              error_column(tables[Len(tables)]))
         IN  [raised |-> e.raised, err |-> e.err, alias |-> i + 1]

\* The errors that the loop passes to solver.solve for the solver of index
\* i, or the exception raised before the call. alias is the place (from 1)
\* in the caller's errors list of the object that err is, 0 when err is a
\* new object: errors[0] itself for the first solver, errors[i].copy() with
\* the linked errors written into it for the others.
stage_errors(self, call, i, tables) ==
    IF ~call.consts.none THEN [raised |-> "UnboundLocalError", err |-> <<>>, alias |-> 0]
    ELSE IF i = 0 THEN [raised |-> "", err |-> call.errors[1], alias |-> 1]
    ELSE LET e == apply_links(call.errors[i + 1], self.links[i],
                              error_column(tables[Len(tables)]))
         IN  [raised |-> e.raised, err |-> e.err, alias |-> 0]

\* The caller's arguments once the object at place alias of the errors list
\* holds the items of d.
written(call, alias, d) ==
    IF alias = 0 THEN call ELSE [call EXCEPT !.errors[alias] = d]

\* combo = None if self.combos is None else self.combos[i]
stage_combo(self, i) == IF self.combos.none THEN NoCombo ELSE self.combos.value[i + 1]

\* The pipelines of the model: the area of a circle, and the area followed
\* by the volume of the cylinder, as in pipeline_ex1.py. The calls are made
\* with stdev=False, so that every error of a table is a rational number.
AreaSolver == ErrorSolver(AreaEquations, NoCombos, DefaultTol)

VolumeSolver == ErrorSolver(VolumeEquations, NoCombos, DefaultTol)

LinkChoices ==
    { << <<"A", "A">> >>, << <<"r", "A">> >>, << <<"V", "A">> >>, << <<"A", "x">> >>,
      << <<"A", "A">>, <<"r", "A">> >>, << <<"A", "A">>, <<"r", "h">> >>, <<>> }

Pipelines ==
    {SolverPipeline(<<AreaSolver>>, <<>>, c) : c \in {None, Some(<<NoCombo>>)}}
        \cup {SolverPipeline(<<AreaSolver, VolumeSolver>>, <<l>>, c) :
                 l \in LinkChoices, c \in {None, Some(<<NoCombo, NoCombo>>)}}

AreaValues == {"A" :> <<3927, 50>> @@ "r" :> RInt(5), "A" :> <<3927, 50>> @@ "r" :> RInt(4)}

VolumeValues ==
    { "A" :> <<3927, 50>> @@ "V" :> <<23562, 25>> @@ "h" :> RInt(12),
      "A" :> <<3927, 50>> @@ "V" :> RInt(900) @@ "h" :> RInt(12) }

AreaErrors == {"r" :> <<1, 20>>}

VolumeErrors == {"h" :> <<1, 20>>, "A" :> <<1, 10>> @@ "h" :> <<1, 20>>}

Arguments(n) ==
    [values : IF n = 1 THEN {<<v>> : v \in AreaValues}
              ELSE {<<v, w>> : v \in AreaValues, w \in VolumeValues},
     errors : IF n = 1 THEN {<<e>> : e \in AreaErrors}
              ELSE {<<e, f>> : e \in AreaErrors, f \in VolumeErrors},
     consts : {None, Some([i \in 1..n |-> <<>>]),
               Some([i \in 1..n |-> IF i = 1 THEN "r" :> <<1, 100>> ELSE "h" :> <<1, 100>>])},
     check : BOOLEAN,
     stdev : {FALSE}]

InitPipeline ==
    /\ NoSolve
    /\ NoFirst
    /\ NoQueries
    /\ NoParse
    /\ NoObjects
    /\ NoFile
    /\ NoCollector
    /\ NoLegacy
    /\ NoShared
    /\ pipeline \in Pipelines
    /\ given \in Arguments(Len(pipeline.solvers))
    /\ stage = 0
    /\ used = <<>>
    /\ results = <<>>
    /\ status = "running"
    /\ returned = <<>>
    /\ failure = NoException

exceptPipeline == <<solveVars, first, queryVars, parseVars, objectVars, fileVars, collectorVars, legacyVars, sharedVars>>

\* for i, solver in enumerate(self.solvers): const, combo and err are set
\* and solver.solve is called; its steps are those of Next.
EnterStage ==
    /\ status = "running"
    /\ pc = "idle"
    /\ stage < Len(pipeline.solvers)
    /\ \E e \in {stage_errors(pipeline, given, stage, results)} :
        /\ IF e.raised # ""
           THEN /\ status' = "failed"
                /\ failure' = Failure(e.raised, "", <<>>)
                /\ UNCHANGED <<used, solveVars>>
           ELSE /\ used' = Append(used, e.err)
                /\ solver' = pipeline.solvers[stage + 1]
                /\ values' = given.values[stage + 1]
                /\ errors' = e.err
                /\ const' = <<>>
                /\ combo' = stage_combo(pipeline, stage)
                /\ check' = given.check
                /\ stdev' = given.stdev
                /\ pc' = IF given.check THEN check_order(pipeline.solvers[stage + 1])[1]
                         ELSE "jacobian"
                /\ UNCHANGED <<steps, locals, error, errinfo, status, failure>>
        /\ given' = written(given, e.alias, e.err)
    /\ UNCHANGED <<pipeline, stage, results, returned>>
    /\ UNCHANGED <<first, queryVars, parseVars, objectVars, fileVars, collectorVars, legacyVars, sharedVars>>

\* solver.solve has returned its table (df['solver'] is set and the table
\* is appended) or raised (the exception leaves SolverPipeline.solve). The
\* values and errors objects it was passed are left as the call left them.
LeaveStage ==
    /\ status = "running"
    /\ pc \in {"done", "failed"}
    /\ IF pc = "failed"
       THEN /\ status' = "failed"
            /\ failure' = Failure(error, "", errinfo)
            /\ UNCHANGED <<stage, results, solveVars>>
       ELSE /\ results' = Append(results, with_solver(result, stage))
            /\ stage' = stage + 1
            /\ solver' = <<>>
            /\ values' = <<>> /\ errors' = <<>> /\ const' = <<>>
            /\ combo' = NoCombo /\ check' = TRUE /\ stdev' = FALSE
            /\ pc' = "idle" /\ steps' = <<>>
            /\ val' = <<>> /\ err' = <<>>
            /\ jac' = <<>> /\ jui' = <<>> /\ result' = <<>>
            /\ error' = "" /\ errinfo' = <<>>
            /\ UNCHANGED <<status, failure>>
    /\ given' = [written(given, stage_errors(pipeline, given, stage, results).alias, errors)
                    EXCEPT !.values[stage + 1] = values]
    /\ UNCHANGED <<pipeline, used, returned>>
    /\ UNCHANGED <<first, queryVars, parseVars, objectVars, fileVars, collectorVars, legacyVars, sharedVars>>

\* results = pd.concat(results); return results
ReturnResults ==
    /\ status = "running"
    /\ pc = "idle"
    /\ stage = Len(pipeline.solvers)
    /\ status' = "returned"
    /\ returned' = concat(results)
    /\ UNCHANGED <<pipeline, given, stage, used, results, failure>>
    /\ UNCHANGED exceptPipeline

\* SolverPipeline.solve has returned or raised, and the caller calls it again
\* on the same pipeline with the same objects as arguments.
SolveAgain ==
    /\ status \in {"returned", "failed"}
    /\ ~first.ended
    /\ first' = [ended |-> TRUE, status |-> status, returned |-> returned,
                 failure |-> failure]
    /\ stage' = 0
    /\ used' = <<>>
    /\ results' = <<>>
    /\ status' = "running"
    /\ returned' = <<>>
    /\ failure' = NoException
    /\ solver' = <<>>
    /\ values' = <<>> /\ errors' = <<>> /\ const' = <<>>
    /\ combo' = NoCombo /\ check' = TRUE /\ stdev' = FALSE
    /\ pc' = "idle" /\ steps' = <<>>
    /\ val' = <<>> /\ err' = <<>>
    /\ jac' = <<>> /\ jui' = <<>> /\ result' = <<>>
    /\ error' = "" /\ errinfo' = <<>>
    /\ UNCHANGED <<pipeline, given>>
    /\ UNCHANGED <<queryVars, parseVars, objectVars, fileVars, collectorVars, legacyVars, sharedVars>>

NextPipeline ==
    \/ EnterStage
    \/ CheckRestrictedSymbols
    \/ CheckValues
    \/ CheckDeterminancy
    \/ Jacobian
    \/ Invert
    \/ Table
    \/ LeaveStage
    \/ ReturnResults
    \/ SolveAgain

SpecPipeline == InitPipeline /\ [][NextPipeline]_vars

\* ------------------------------------------------------------------------
\* C18
\* ------------------------------------------------------------------------

\* The stages (from 0) that solver.solve was called for.
Solved == 0..(Len(used) - 1)

\* The combo that stage i is solved with.
StageCombo(i) == stage_combo(pipeline, i)

\* The known-error variables of stage i.
KnownErrors(i) ==
    Range(used_vars(pipeline.solvers[i + 1], given.values[i + 1], used[i + 1],
                    StageCombo(i))[2])

\* The row of a variable in a table.
RowOf(table, name) == table[CHOOSE r \in DOMAIN table : table[r].var = name]

Variables(table) == {table[r].var : r \in DOMAIN table}

\* The link <<from_key, to_key>> feeds stage i: the error that stage i is
\* solved with for to_key is the one that the table of stage i - 1 reports
\* for from_key, and to_key is a known-error variable of stage i.
Feeds(link, i) ==
    /\ link[1] \in Variables(results[i])
    /\ link[2] \in DOMAIN used[i + 1]
    /\ used[i + 1][link[2]] = RowOf(results[i], link[1]).error
    /\ link[2] \in KnownErrors(i)
    /\ Len(results) > i =>
           /\ link[2] \in Variables(results[i + 1])
           /\ ~RowOf(results[i + 1], link[2]).is_calc

\* Stage i is solved after the stages before it, which all returned a table.
InListOrder ==
    /\ Len(used) \in {Len(results), Len(results) + 1}
    /\ \A j \in DOMAIN results : \A r \in DOMAIN results[j] : results[j][r].solver = j

\* C18: the stages are solved in list order, and when stage i > 0 is solved,
\* for every link (from_key, to_key) leading into it, the error used for
\* to_key is the error reported for from_key in the table of stage i - 1,
\* whatever error the caller gave for to_key; to_key is then a known-error
\* variable (is_calc false) of stage i.
C18_Links ==
    status # "idle" =>
        /\ InListOrder
        /\ \A i \in Solved \ {0} :
               \A l \in DOMAIN pipeline.links[i] : Feeds(pipeline.links[i][l], i)

\* ------------------------------------------------------------------------
\* C19
\* ------------------------------------------------------------------------

\* The variables of the equations that stage i is solved with.
StageVariables(i) == equation_vars(pipeline.solvers[i + 1], StageCombo(i))

\* C19: the call fails whenever a link has a from_key that is absent from
\* the table of the previous stage or a to_key that is not a variable of the
\* equations of its stage: no stage i > 0 is passed with such a link.
C19_LinkErrors ==
    \A i \in 1..(stage - 1) : \A l \in DOMAIN pipeline.links[i] :
        /\ pipeline.links[i][l][1] \in Variables(results[i])
        /\ pipeline.links[i][l][2] \in StageVariables(i)

\* ------------------------------------------------------------------------
\* C20
\* ------------------------------------------------------------------------

\* solver.solve of the last stage entered raised.
StageFailed == status = "failed" /\ Len(used) = Len(results) + 1

\* The exception names the stage i.
CarriesStage(exception, i) == "stage" \in DOMAIN exception /\ exception.stage = i

\* The call ended with the failing stage: nothing is returned and no later
\* stage is solved.
FailsAtOnce == returned = <<>> /\ stage = Len(results) /\ Len(used) = stage + 1

\* C20: if solving stage i fails, the call fails at once: no later stage is
\* solved, no partial table is returned, and the error that reaches the
\* caller carries the index of the failing stage.
C20_StageFailure ==
    StageFailed => (FailsAtOnce /\ CarriesStage(failure, stage))

\* ---------------------------------------------------------------------------
\* The Collector context manager and the collect and fcollect decorators.
\* The class attributes CLASS_DICT and FUNC_DICT are references to dictionary
\* objects of the heap; a dictionary is a function from its keys to its values.

MaxEvents == 4

\* The decorated functions, by module and name, the objects with decorated
\* methods, and the names of these methods.
Functions ==
    { [module |-> <<"m">>, name |-> <<"f">>],
      [module |-> <<"n">>, name |-> <<"f">>] }

Objects == {"c1", "c2"}

Methods == {"area", "perimeter"}

\* dict() and WeakKeyDictionary()
dict == [type |-> "dict", items |-> <<>>]

WeakKeyDictionary == [type |-> "WeakKeyDictionary", items |-> <<>>]

\* '{}.{}'.format(func.__module__, func.__name__)
fkey(func) == func.module \o <<".">> \o func.name

pass == [returned |-> "None", raised |-> ""]

__enter__merging(cls) ==
    [raised |-> "", returned |-> "Collector",
     cls |-> [cls EXCEPT !.IS_ACTIVE = TRUE]]

__enter__(cls) ==
    IF cls.IS_ACTIVE
    THEN [raised |-> "ValueError", returned |-> "None", cls |-> cls]
    ELSE [raised |-> "", returned |-> "Collector",
          cls |-> [cls EXCEPT !.IS_ACTIVE = TRUE]]

__exit__clearing(cls, hp) ==
    [returned |-> FALSE,
     cls |-> [cls EXCEPT !.IS_ACTIVE = FALSE],
     hp |-> [hp EXCEPT ![cls.CLASS_DICT].items = <<>>,
                       ![cls.FUNC_DICT].items = <<>>]]

\* The two dictionaries are new objects: the old ones are left as they are.
__exit__(cls, hp) ==
    [returned |-> FALSE,
     cls |-> [IS_ACTIVE |-> FALSE,
              CLASS_DICT |-> Len(hp) + 1,
              FUNC_DICT |-> Len(hp) + 2],
     hp |-> hp \o <<WeakKeyDictionary, dict>>]

set_fdict_always(cls, hp, func, value) ==
    [hp EXCEPT ![cls.FUNC_DICT].items = put(@, fkey(func), value)]

set_fdict(cls, hp, func, value) ==
    IF cls.IS_ACTIVE
    THEN [hp EXCEPT ![cls.FUNC_DICT].items = put(@, fkey(func), value)]
    ELSE hp

set_dict(cls, hp, obj, func, value) ==
    IF cls.IS_ACTIVE
    THEN LET odict == hp[cls.CLASS_DICT].items
             inner == IF obj \in DOMAIN odict THEN odict[obj] ELSE <<>>
         IN  [hp EXCEPT ![cls.CLASS_DICT].items = put(odict, obj, put(inner, func, value))]
    ELSE hp

get_fdict(cls) == cls.FUNC_DICT

get_dict(cls) == cls.CLASS_DICT

\* An object that nothing refers to any more leaves every WeakKeyDictionary.
finalize(hp, obj) ==
    [i \in DOMAIN hp |->
        IF hp[i].type = "WeakKeyDictionary"
        THEN [hp[i] EXCEPT !.items = [o \in DOMAIN @ \ {obj} |-> @[o]]]
        ELSE hp[i]]

\* Every call returns a value of its own, so that the latest call of a
\* function is told from the earlier ones.
ReturnValue == Len(log) + 1

InitCollector ==
    /\ NoSolve
    /\ NoFirst
    /\ NoQueries
    /\ NoParse
    /\ NoObjects
    /\ NoFile
    /\ NoPipeline
    /\ NoLegacy
    /\ NoShared
    /\ Collector = [IS_ACTIVE |-> FALSE, CLASS_DICT |-> 1, FUNC_DICT |-> 2]
    /\ heap = <<WeakKeyDictionary, dict>>
    /\ alive = Objects
    /\ kept = {}
    /\ log = <<>>
    /\ outcome = pass

exceptCollector ==
    <<solveVars, first, queryVars, parseVars, objectVars, fileVars, pipelineVars, legacyVars,
      sharedVars>>

\* with Collector(): the window opens, or ValueError leaves the statement
\* without a call of __exit__.
Enter ==
    /\ Len(log) < MaxEvents
    /\ \E r \in {__enter__(Collector)} :
         /\ Collector' = r.cls
         /\ outcome' = [returned |-> r.returned, raised |-> r.raised]
    /\ log' = Append(log, [op |-> "enter"])
    /\ UNCHANGED <<heap, alive, kept>>
    /\ UNCHANGED exceptCollector

\* The body of the with statement ends, or raises exc: __exit__ returns
\* False, so that the exception goes on.
Exit(exc) ==
    /\ Len(log) < MaxEvents
    /\ Collector.IS_ACTIVE
    /\ \E r \in {__exit__(Collector, heap)} :
         /\ Collector' = r.cls
         /\ heap' = r.hp
         /\ outcome' = [returned |-> "None", raised |-> IF r.returned THEN "" ELSE exc]
    /\ log' = Append(log, [op |-> "exit", exc |-> exc])
    /\ UNCHANGED <<alive, kept>>
    /\ UNCHANGED exceptCollector

\* A function decorated with fcollect is called.
CallFunction(func) ==
    /\ Len(log) < MaxEvents
    /\ heap' = set_fdict(Collector, heap, func, ReturnValue)
    /\ outcome' = [returned |-> ReturnValue, raised |-> ""]
    /\ log' = Append(log, [op |-> "fcollect", func |-> func, value |-> ReturnValue])
    /\ UNCHANGED <<Collector, alive, kept>>
    /\ UNCHANGED exceptCollector

\* A method decorated with collect is called on an object.
CallMethod(obj, func) ==
    /\ Len(log) < MaxEvents
    /\ obj \in alive
    /\ heap' = set_dict(Collector, heap, obj, func, ReturnValue)
    /\ outcome' = [returned |-> ReturnValue, raised |-> ""]
    /\ log' = Append(log, [op |-> "collect", obj |-> obj, func |-> func,
                           value |-> ReturnValue])
    /\ UNCHANGED <<Collector, alive, kept>>
    /\ UNCHANGED exceptCollector

\* The caller asks for a dictionary and keeps it.
GetDict ==
    /\ Len(log) < MaxEvents
    /\ kept' = kept \cup {get_dict(Collector)}
    /\ outcome' = [returned |-> get_dict(Collector), raised |-> ""]
    /\ log' = Append(log, [op |-> "get_dict"])
    /\ UNCHANGED <<Collector, heap, alive>>
    /\ UNCHANGED exceptCollector

GetFdict ==
    /\ Len(log) < MaxEvents
    /\ kept' = kept \cup {get_fdict(Collector)}
    /\ outcome' = [returned |-> get_fdict(Collector), raised |-> ""]
    /\ log' = Append(log, [op |-> "get_fdict"])
    /\ UNCHANGED <<Collector, heap, alive>>
    /\ UNCHANGED exceptCollector

\* The program drops its last reference to an object.
Del(obj) ==
    /\ Len(log) < MaxEvents
    /\ obj \in alive
    /\ alive' = alive \ {obj}
    /\ heap' = finalize(heap, obj)
    /\ outcome' = pass
    /\ log' = Append(log, [op |-> "del", obj |-> obj])
    /\ UNCHANGED <<Collector, kept>>
    /\ UNCHANGED exceptCollector

NextCollector ==
    \/ Enter
    \/ \E exc \in {"", "RuntimeError"} : Exit(exc)
    \/ \E func \in Functions : CallFunction(func)
    \/ \E obj \in Objects, func \in Methods : CallMethod(obj, func)
    \/ GetDict
    \/ GetFdict
    \/ \E obj \in Objects : Del(obj)

SpecCollector == InitCollector /\ [][NextCollector]_vars

\* What the caller did, read from the log alone.

\* The steps of the log that open or close a window: an attempt to open a
\* window that is already open does neither.
Last(S) == CHOOSE i \in S : \A j \in S : j <= i

LastExit(l) == Last({0} \cup {i \in DOMAIN l : l[i].op = "exit"})

\* The step that opened the window that is open after l, or 0
Opened(l) ==
    LET S == {i \in DOMAIN l : i > LastExit(l) /\ l[i].op = "enter"}
    IN  IF S = {} THEN 0 ELSE CHOOSE i \in S : \A j \in S : i <= j

\* The calls made while the window that is open after l was active
CallsInWindow(l) == IF Opened(l) = 0 THEN {} ELSE {i \in DOMAIN l : i > Opened(l)}

Deleted(l) == {l[i].obj : i \in {j \in DOMAIN l : l[j].op = "del"}}

FunctionCalls(l, func) ==
    {i \in CallsInWindow(l) : l[i].op = "fcollect" /\ l[i].func = func}

MethodCalls(l, obj, func) ==
    {i \in CallsInWindow(l) : l[i].op = "collect" /\ l[i].obj = obj /\ l[i].func = func}

\* The dictionaries of the class
FuncDict == heap[Collector.FUNC_DICT].items

ClassDict == heap[Collector.CLASS_DICT].items

LatestFunctionValues ==
    \A func \in Functions :
        IF FunctionCalls(log, func) = {}
        THEN fkey(func) \notin DOMAIN FuncDict
        ELSE /\ fkey(func) \in DOMAIN FuncDict
             /\ FuncDict[fkey(func)] = log[Last(FunctionCalls(log, func))].value

LatestMethodValues ==
    \A obj \in Objects :
        IF obj \in Deleted(log) \/ \A func \in Methods : MethodCalls(log, obj, func) = {}
        THEN obj \notin DOMAIN ClassDict
        ELSE /\ obj \in DOMAIN ClassDict
             /\ \A func \in Methods :
                  IF MethodCalls(log, obj, func) = {}
                  THEN func \notin DOMAIN ClassDict[obj]
                  ELSE /\ func \in DOMAIN ClassDict[obj]
                       /\ ClassDict[obj][func] = log[Last(MethodCalls(log, obj, func))].value

OnlyKnownKeys ==
    /\ DOMAIN FuncDict \subseteq {fkey(func) : func \in Functions}
    /\ DOMAIN ClassDict \subseteq Objects
    /\ \A obj \in DOMAIN ClassDict : DOMAIN ClassDict[obj] \subseteq Methods

IsCall(e) == e.op \in {"fcollect", "collect"}

\* A call returns the value of the function; made while no window is active,
\* it changes no dictionary.
CallReturns ==
    /\ IsCall(log'[Len(log')]) =>
         outcome' = [returned |-> log'[Len(log')].value, raised |-> ""]
    /\ (IsCall(log'[Len(log')]) /\ Opened(log) = 0) => heap' = heap

\* C21: in every state the value stored for a key (the module and name of a
\* function, an object and the name of a method) is the value returned by the
\* latest call made while the current window was active, and nothing is stored
\* for a key that had no such call; a call returns the function's value, and
\* a call made while no window is active changes no dictionary.
C21_LatestCall ==
    /\ [](LatestFunctionValues /\ LatestMethodValues /\ OnlyKnownKeys)
    /\ [][log' # log => CallReturns]_vars

\* A call was made outside a window, then a window was opened and a function
\* called twice in it: the dictionary holds the value of the second call.
C21_Witness ==
    /\ Collector.IS_ACTIVE
    /\ Len(log) = 4 /\ IsCall(log[1])
    /\ \E func \in Functions :
         /\ FunctionCalls(log, func) = {3, 4}
         /\ FuncDict[fkey(func)] = log[4].value

\* The step is an attempt to open a window.
Opening == log' = Append(log, [op |-> "enter"])

\* C22: an attempt to open a window while one is active raises ValueError and
\* changes neither the class attributes nor any dictionary, and a window that
\* was opened is active, whatever was attempted since, until its own exit.
C22_NestedRejected ==
    /\ [][(Collector.IS_ACTIVE /\ Opening) =>
            /\ outcome'.raised = "ValueError"
            /\ Collector' = Collector
            /\ heap' = heap]_vars
    /\ [](Collector.IS_ACTIVE <=> Opened(log) # 0)

\* A window that holds a value was opened again: the attempt was rejected, and
\* the window is still active and still holds the value.
C22_Witness ==
    /\ Len(log) = 3 /\ log[1].op = "enter" /\ IsCall(log[2]) /\ log[3].op = "enter"
    /\ outcome.raised = "ValueError"
    /\ Collector.IS_ACTIVE
    /\ FuncDict # <<>> \/ ClassDict # <<>>

\* The step closes the window, normally or by the exception exc.
Closing(exc) == log' = Append(log, [op |-> "exit", exc |-> exc])

Current == {Collector.CLASS_DICT, Collector.FUNC_DICT}

\* C23: the step that closes a window, normally or by an exception, which goes
\* on to the caller, leaves collection inactive and get_dict() and get_fdict()
\* empty, and changes no dictionary that existed; a dictionary that the caller
\* obtained during a window is changed by no later step while the objects that
\* are its keys live; a window that has just been opened holds nothing.
C23_Replaced ==
    /\ [][\A exc \in {"", "RuntimeError"} : Closing(exc) =>
            /\ outcome'.raised = exc
            /\ ~Collector'.IS_ACTIVE
            /\ heap'[get_dict(Collector')].items = <<>>
            /\ heap'[get_fdict(Collector')].items = <<>>
            /\ \A d \in DOMAIN heap : heap'[d] = heap[d]]_vars
    /\ [][\A d \in kept \ Current : alive' = alive => heap'[d] = heap[d]]_vars
    /\ []((Len(log) > 0 /\ log[Len(log)].op = "enter" /\ Opened(log) = Len(log)) =>
            FuncDict = <<>> /\ ClassDict = <<>>)

\* The caller took a dictionary that held a value and an exception closed the
\* window: the caller's dictionary still holds the value, and the dictionaries
\* of the class are new and empty.
C23_Witness ==
    /\ Len(log) = 4 /\ log[4] = [op |-> "exit", exc |-> "RuntimeError"]
    /\ outcome.raised = "RuntimeError"
    /\ ~Collector.IS_ACTIVE
    /\ \E d \in kept \ Current : heap[d].items # <<>>
    /\ FuncDict = <<>> /\ ClassDict = <<>>

\* ---------------------------------------------------------------------------
\* Constant errors and standard deviations: solve calls on the cylinder and on
\* a linear system whose unknown block is not diagonal.

ConstSolvers ==
    { ErrorSolver(CylinderEquations, CylinderCombos, DefaultTol),
      ErrorSolver(MixEquations, NoCombos, DefaultTol) }

InitConst ==
    /\ solver \in {[s EXCEPT !.keyorder = "ascending"] : s \in ConstSolvers}
    /\ values = <<>> /\ errors = <<>> /\ const = <<>>
    /\ combo = NoCombo /\ check = TRUE /\ stdev = FALSE
    /\ pc = "idle" /\ steps = <<>>
    /\ val = <<>> /\ err = <<>>
    /\ jac = <<>> /\ jui = <<>> /\ result = <<>>
    /\ error = "" /\ errinfo = <<>>
    /\ NoFirst
    /\ NoQueries
    /\ NoParse
    /\ NoObjects
    /\ NoFile
    /\ NoPipeline
    /\ NoCollector
    /\ NoLegacy
    /\ NoShared

SpecConst == InitConst /\ [][Next]_vars

\* |const[k]|, or 0 for a variable that const does not name
ConstOf(k) == IF k \in DOMAIN const THEN RAbs(const[k]) ELSE Zero

\* |error| + |const| of the k-th known-error variable
KnownTolerance(k) == RAdd(RAbs(errors[err[k]]), ConstOf(err[k]))

\* Row i of |Ju^-1| . (|Jk| . xk + |Ju| . cu), sum by sum
Propagated(i, xk, cu) ==
    LET n == Len(val)
        ju == Cols(jac, 1, n)
        jk == Cols(jac, n + 1, n + Len(err))
        inv == Inverse(ju)
    IN  RSum([j \in 1..n |->
                RMul(RAbs(inv[i][j]),
                     RAdd(RSum([k \in DOMAIN err |-> RMul(RAbs(jk[j][k]), xk[k])],
                               DOMAIN err),
                          RSum([l \in 1..n |-> RMul(RAbs(ju[j][l]), cu[l])], 1..n)))],
             1..n)

AllZero(cst) == \A k \in DOMAIN cst : cst[k] = Zero

\* C24: when solve has returned in tolerance mode with a const mapping that is
\* not empty, the row of every known-error variable has the error
\* |error| + |const| (const counting as 0 for a variable it does not name),
\* the row of unknown variable i has the error of row i of
\* |Ju^-1| . (|Jk| . (|xk| + |ck|) + |Ju| . |cu|), and when every constant
\* error is 0 the table is the table of the same call without const; for the
\* cylinder with const = {'height': 0} the row of V has an error within 1% of
\* 22.78.
C24_ConstTolerance ==
    (pc = "done" /\ ~stdev /\ DOMAIN const # {}) =>
        /\ \A k \in DOMAIN err : Row(err[k]).error = KnownTolerance(k)
        /\ \A i \in DOMAIN val :
             Row(val[i]).error =
                Propagated(i, [k \in DOMAIN err |-> KnownTolerance(k)],
                           [l \in DOMAIN val |-> ConstOf(val[l])])
        /\ AllZero(const) =>
             result = solve(solver, values, errors, <<>>, combo, check, stdev).result
        /\ (CylinderCase /\ const = "h" :> Zero) =>
             /\ FloorScaled(Row("V").error, 4) \in 225522..230077
             /\ Row("V").is_calc

\* C24: 'a + b = x + 2*y', 'a - b = x' has been solved for a and b in
\* tolerance mode with errors of -0.3 on x and 0.1 on y and constant errors of
\* -0.4 on x and 0.2 on a.
C24_Witness ==
    /\ pc = "done" /\ ~stdev /\ solver.equations = MixEquations
    /\ val = <<"a", "b">> /\ err = <<"x", "y">>
    /\ errors["x"] = <<-3, 10>>
    /\ const = "x" :> <<-2, 5>> @@ "a" :> <<1, 5>> @@ "c" :> One
    /\ Row("x").error = <<7, 10>> /\ Row("y").error = <<1, 10>>
    /\ Row("a").error = One /\ Row("b").error = One

\* error^2 + const^2 of the k-th known-error variable
KnownVariance(k) ==
    RAdd(Square(errors[err[k]]), Square(Get(const, err[k], Zero)))

\* C25: when solve has returned in standard deviation mode, the row of every
\* known-error variable has the error sqrt(error^2 + const^2), which is |error|
\* when no const mapping is given, and the row of unknown variable i has the
\* square root of row i of |Ju^-1| . (|Jk| . (xk^2 + ck^2) + |Ju| . cu^2), the
\* Jacobian blocks being the absolute values used in tolerance mode, not
\* their squares.
C25_ConstStdev ==
    (pc = "done" /\ stdev) =>
        /\ \A k \in DOMAIN err :
             /\ Row(err[k]).error = RSqrt(KnownVariance(k))
             /\ DOMAIN const = {} => Row(err[k]).error = RAbs(errors[err[k]])
        /\ \A i \in DOMAIN val :
             Row(val[i]).error =
                RSqrt(Propagated(i, [k \in DOMAIN err |-> KnownVariance(k)],
                                 [l \in DOMAIN val |-> Square(Get(const, val[l], Zero))]))

\* C25: 'a + b = x + 2*y', 'a - b = x' has been solved for a and b in standard
\* deviation mode with errors of 0.3 on x and 0.1 on y and constant errors of
\* -0.4 on x and 0.2 on a: 0.5 for x, sqrt(0.3) for a and b.
C25_Witness ==
    /\ pc = "done" /\ stdev /\ solver.equations = MixEquations
    /\ val = <<"a", "b">> /\ err = <<"x", "y">>
    /\ const = "x" :> <<-2, 5>> @@ "a" :> <<1, 5>> @@ "c" :> One
    /\ Row("x").error = <<1, 2>> /\ Row("y").error = <<1, 10>>
    /\ Row("a").error = <<3, 10, 2>> /\ Row("b").error = <<3, 10, 2>>

\* ---------------------------------------------------------------------------
\* check() of the ErrorSolver of error_solver/solver.py, which holds its values
\* and errors, and of the ErrorSolver of error_solver/error_solver.py, which
\* differs in that every variable with an error has a value and in that the
\* tolerance is the number 0.01.  A message is the sequence of its lines.

LegacySolver(eqs, vals, errs, tolerance) ==
    [equations |-> eqs, values |-> vals, errors |-> errs, tolerance |-> tolerance]

\* used_variables(): unknown and known
legacy_used(self) == used_variables(self.equations, self.values, self.errors)

restricted_symbols(self) ==
    LET variables == legacy_used(self)[1] \o legacy_used(self)[2]
    IN  {variables[i] : i \in {j \in DOMAIN variables : parse_expr(variables[j]) \in restr}}

Result(ok, message) == [raised |-> "", ok |-> ok, message |-> message]

Raised(exception) == [raised |-> exception, ok |-> FALSE, message |-> <<>>]

_check_restricted_symbols(self) ==
    LET restricted == restricted_symbols(self)
    IN  Result(restricted = {},
                 IF restricted = {} THEN <<>>
                 ELSE << [text |-> "Symbols {} in input variable dictionary are restricted.",
                          about |-> restricted] >>)

_check_missing_variables(self) ==
    LET missing == missing_variables(self.equations, self.values, self.errors)
    IN  Result(missing = {},
                 IF missing = {} THEN <<>>
                 ELSE << [text |-> "Equation variables {} are missing from input variable dictionary.",
                          about |-> missing] >>)

_check_determinant_system(self) ==
    LET u == Len(legacy_used(self)[1])
        e == Len(self.equations)
    IN  Result(u = e,
                 IF u = e THEN <<>>
                 ELSE << [text |-> "{} Equations != {} Unknowns. System is indeterminant.",
                          about |-> <<e, u>>] >>)

\* The lines of the equations whose value exceeds the tolerance, in order
RECURSIVE value_lines(_, _, _)
value_lines(self, values_, i) ==
    IF i > Len(values_) THEN <<>>
    ELSE (IF RLess(self.tolerance, values_[i])
          THEN << [text |-> "Value for {} = {} > {}.",
                   about |-> <<self.equations[i], values_[i], self.tolerance>>] >>
          ELSE <<>>) \o value_lines(self, values_, i + 1)

\* float() raises TypeError for an expression that is not a real number, and
\* max() raises ValueError for an empty list.
_check_equation_values(self) ==
    LET v == [i \in DOMAIN self.equations |-> Evalf(Subs(self.equations[i], self.values))]
        equation_values == [i \in DOMAIN v |-> RAbs(FloatOf(v[i]))]
    IN  IF \E i \in DOMAIN v : FreeSymbols(v[i]) # {} \/ ~IsReal(v[i])
        THEN Raised("TypeError")
        ELSE IF Len(v) = 0 THEN Raised("ValueError")
        ELSE LET ok == \A i \in DOMAIN v : RLeq(equation_values[i], self.tolerance)
             IN  Result(ok, IF ok THEN <<>> ELSE value_lines(self, equation_values, 1))

check_methods ==
    << "_check_restricted_symbols", "_check_missing_variables",
       "_check_determinant_system", "_check_equation_values" >>

\* getattr(self, x)()
getattr(self, x) ==
    CASE x = "_check_restricted_symbols" -> _check_restricted_symbols(self)
      [] x = "_check_missing_variables" -> _check_missing_variables(self)
      [] x = "_check_determinant_system" -> _check_determinant_system(self)
      [] x = "_check_equation_values" -> _check_equation_values(self)

\* '\n'.join(messages): the lines of the messages, one after the other
RECURSIVE join(_)
join(messages) ==
    IF messages = <<>> THEN <<>> ELSE Head(messages) \o join(Tail(messages))

\* [x['message'] for x in checks if x['message'] != '']
nonempty_messages(list) ==
    LET keep(x) == x.message # <<>>
    IN  [i \in DOMAIN SelectSeq(list, keep) |-> SelectSeq(list, keep)[i].message]

LegacyEquations == {<<>>, CylinderEquations, ProductEquations}

InitLegacy ==
    /\ NoSolve
    /\ NoFirst
    /\ NoQueries
    /\ NoParse
    /\ NoObjects
    /\ NoFile
    /\ NoPipeline
    /\ NoCollector
    /\ NoShared
    /\ \E eqs \in LegacyEquations :
         \E vals \in (IF eqs = <<>> THEN {<<>>} ELSE Maps(ValueChoices([equations |-> eqs]))) :
           \E errs \in (IF eqs = <<>> THEN {<<>>} ELSE Maps(ErrorChoices([equations |-> eqs]))) :
             legacy = LegacySolver(eqs, vals, errs, DefaultTol)
    /\ method = 0
    /\ checks = <<>>
    /\ checked = <<>>

exceptLegacy ==
    <<solveVars, first, queryVars, parseVars, objectVars, fileVars, pipelineVars, collectorVars,
      sharedVars>>

\* checks = [getattr(self, x)() for x in check_methods]: the next check is
\* run; an exception it raises leaves check().
CheckMethod ==
    /\ checked = <<>>
    /\ method < Len(check_methods)
    /\ \E r \in {getattr(legacy, check_methods[method + 1])} :
         IF r.raised # ""
         THEN checked' = r /\ UNCHANGED <<method, checks>>
         ELSE /\ checks' = Append(checks, r)
              /\ method' = method + 1
              /\ UNCHANGED checked
    /\ UNCHANGED legacy
    /\ UNCHANGED exceptLegacy

\* The status and the message are put together and returned.
CheckReturn ==
    /\ checked = <<>>
    /\ method = Len(check_methods)
    /\ LET ok == FALSE \notin {checks[i].ok : i \in DOMAIN checks}
       IN  checked' = Result(ok, IF ok THEN <<>> ELSE join(nonempty_messages(checks)))
    /\ UNCHANGED <<legacy, method, checks>>
    /\ UNCHANGED exceptLegacy

NextLegacy == CheckMethod \/ CheckReturn

SpecLegacy == InitLegacy /\ [][NextLegacy]_vars

\* The messages of the checks that failed, in the order of the checks
FailingMessages ==
    join([i \in DOMAIN checks |-> IF checks[i].ok THEN <<>> ELSE checks[i].message])

\* check() has returned what the four checks found.
AllReported ==
    /\ checked.raised = ""
    /\ Len(checks) = Len(check_methods)
    /\ checked.ok = (\A i \in DOMAIN checks : checks[i].ok)
    /\ checked.message = IF checked.ok THEN <<>> ELSE FailingMessages

\* C26: whatever the equations, values and errors, when check() has ended all
\* four checks have been run, and check() has returned ok = True with an empty
\* message when every check passed, and otherwise ok = False with the messages
\* of the failing checks, in the order restricted symbols, missing variables,
\* determinacy, equation values, line after line.
C26_Umbrella == checked # <<>> => AllReported

\* check() has ended by an exception of one of its checks.
CheckRaised == checked # <<>> /\ checked.raised # ""

\* ---------------------------------------------------------------------------
\* check, jacobian and solve called by two callers on one solver, the
\* statements of the two calls interleaved.  A frame holds the mappings that
\* the caller passed, as they are now, a copy of what they were when the call
\* was made, and the locals of the call.

Callers == {1, 2}

\* The statement of self.solve, self.check or self.jacobian that frame f is
\* at: the solver and the frame as the statement leaves them.
solve_step_narrowing(self, f) ==
    LET a == f.asked
        raise(e) == [f EXCEPT !.pc = "failed", !.error = e]
        narrowed == [self EXCEPT !.equations = get_equations(self, a.combo),
                                 !.partials = get_partials(self, a.combo)]
    IN  CASE f.pc = "check" ->
               LET e == check_error(self, f.values, f.errors, a.combo)
               IN  [self |-> self,
                    frame |-> IF e # "" THEN raise(e)
                              ELSE [f EXCEPT !.pc = IF a.op = "check" THEN "done"
                                                    ELSE "used_vars"]]
          [] f.pc = "used_vars" ->
               LET uv == used_vars(self, f.values, f.errors, a.combo)
               IN  [self |-> IF a.combo = NoCombo THEN self ELSE narrowed,
                    frame |-> [f EXCEPT !.val = uv[1], !.err = uv[2], !.pc = "jacobian"]]
          [] f.pc = "jacobian" ->
               LET e == jacobian_error(self, f.values, f.errors, a.combo)
               IN  [self |-> self,
                    frame |-> IF e # "" THEN raise(e)
                              ELSE [f EXCEPT !.jac = jacobian(self, f.values, f.errors, a.combo),
                                             !.pc = IF a.op = "jacobian" THEN "done"
                                                    ELSE "inv"]]
          [] f.pc = "inv" ->
               LET ju == Cols(f.jac, 1, Len(f.val))
               IN  [self |-> self,
                    frame |-> IF inv_error(ju) # "" THEN raise(inv_error(ju))
                              ELSE [f EXCEPT !.jui = MAbs(Inverse(ju)), !.pc = "table"]]
          [] f.pc = "table" ->
               LET xu == unknown_errors(f.jac, f.jui, f.val, f.err, f.errors, f.const, a.stdev)
                   xk == known_errors(f.err, f.errors, f.const, a.stdev)
               IN  [self |-> self,
                    frame |-> IF ~(Range(f.err) \subseteq DOMAIN f.values)
                              THEN raise("KeyError")
                              ELSE [f EXCEPT
                                      !.result = sort_values(table_rows(f.val, f.err,
                                                     f.values, xu, xk, a.stdev)),
                                      !.errors = errors_after(f.errors, f.err, f.const, a.stdev),
                                      !.pc = "done"]]

solve_step(self, f) ==
    LET a == f.asked
        raise(e) == [f EXCEPT !.pc = "failed", !.error = e]
    IN  CASE f.pc = "check" ->
               LET e == check_error(self, f.values, f.errors, a.combo)
               IN  [self |-> self,
                    frame |-> IF e # "" THEN raise(e)
                              ELSE [f EXCEPT !.pc = IF a.op = "check" THEN "done"
                                                    ELSE "used_vars"]]
          [] f.pc = "used_vars" ->
               LET uv == used_vars(self, f.values, f.errors, a.combo)
               IN  [self |-> self,
                    frame |-> [f EXCEPT !.val = uv[1], !.err = uv[2], !.pc = "jacobian"]]
          [] f.pc = "jacobian" ->
               LET e == jacobian_error(self, f.values, f.errors, a.combo)
               IN  [self |-> self,
                    frame |-> IF e # "" THEN raise(e)
                              ELSE [f EXCEPT !.jac = jacobian(self, f.values, f.errors, a.combo),
                                             !.pc = IF a.op = "jacobian" THEN "done"
                                                    ELSE "inv"]]
          [] f.pc = "inv" ->
               LET ju == Cols(f.jac, 1, Len(f.val))
               IN  [self |-> self,
                    frame |-> IF inv_error(ju) # "" THEN raise(inv_error(ju))
                              ELSE [f EXCEPT !.jui = MAbs(Inverse(ju)), !.pc = "table"]]
          [] f.pc = "table" ->
               LET xu == unknown_errors(f.jac, f.jui, f.val, f.err, f.errors, f.const, a.stdev)
                   xk == known_errors(f.err, f.errors, f.const, a.stdev)
               IN  [self |-> self,
                    frame |-> IF ~(Range(f.err) \subseteq DOMAIN f.values)
                              THEN raise("KeyError")
                              ELSE [f EXCEPT
                                      !.result = sort_values(table_rows(f.val, f.err,
                                                     f.values, xu, xk, a.stdev)),
                                      !.errors = errors_after(f.errors, f.err, f.const, a.stdev),
                                      !.pc = "done"]]

\* The frame of a call that is about to run its first statement.
Frame(a) ==
    [asked |-> a, values |-> a.values, errors |-> a.errors, const |-> a.const,
     pc |-> CASE a.op = "check" -> "check"
              [] a.op = "jacobian" -> "jacobian"
              [] a.op = "solve" -> IF a.check THEN "check" ELSE "used_vars",
     val |-> <<>>, err |-> <<>>, jac |-> <<>>, jui |-> <<>>, result |-> <<>>,
     error |-> ""]

SharedSolvers ==
    { ErrorSolver(CylinderEquations, CylinderCombos, DefaultTol),
      ErrorSolverPy(CylinderEquations, set_partials(CylinderEquations), CylinderCombos,
                    DefaultTol) }

SharedValues == {CylinderValues, [CylinderValues EXCEPT !["V"] = RInt(900)]}

SharedErrors == {"h" :> <<1, 20>> @@ "r" :> <<1, 20>>, "r" :> <<1, 20>>}

\* The calls a caller may make.
Asked ==
    [op : {"solve"}, values : SharedValues, errors : SharedErrors,
     const : {<<>>, "r" :> <<1, 100>> @@ "V" :> <<1, 100>>},
     combo : {NoCombo, "area"}, check : {TRUE}, stdev : {FALSE}]
    \cup
    [op : {"check", "jacobian"}, values : {CylinderValues}, errors : SharedErrors,
     const : {<<>>}, combo : {NoCombo, "area"}, check : {TRUE}, stdev : {FALSE}]

InitShared ==
    /\ NoSolve
    /\ NoFirst
    /\ NoQueries
    /\ NoParse
    /\ NoObjects
    /\ NoFile
    /\ NoPipeline
    /\ NoCollector
    /\ NoLegacy
    /\ shared \in {[s EXCEPT !.keyorder = "ascending"] : s \in SharedSolvers}
    /\ frames \in [Callers -> {Frame(a) : a \in Asked}]

exceptShared ==
    <<solveVars, first, queryVars, parseVars, objectVars, fileVars, pipelineVars, collectorVars,
      legacyVars>>

\* Caller c's call runs its next statement.
Step(c) ==
    /\ frames[c].pc \notin {"done", "failed"}
    /\ \E r \in {solve_step(shared, frames[c])} :
         /\ shared' = r.self
         /\ frames' = [frames EXCEPT ![c] = r.frame]
    /\ UNCHANGED exceptShared

NextShared == \E c \in Callers : Step(c)

SpecShared == InitShared /\ [][NextShared]_vars

\* What the call returns or raises when no other call is in progress
Alone(self, a) ==
    CASE a.op = "solve" ->
           LET s == solve(self, a.values, a.errors, a.const, a.combo, a.check, a.stdev)
           IN  [error |-> s.error, value |-> s.result]
      [] a.op = "check" ->
           [error |-> check_error(self, a.values, a.errors, a.combo), value |-> <<>>]
      [] a.op = "jacobian" ->
           LET e == jacobian_error(self, a.values, a.errors, a.combo)
           IN  [error |-> e,
                value |-> IF e = "" THEN jacobian(self, a.values, a.errors, a.combo)
                          ELSE <<>>]

\* What the call of frame f has returned or raised
Ending(f) ==
    [error |-> f.error,
     value |-> CASE f.pc = "failed" -> <<>>
                 [] f.asked.op = "solve" -> f.result
                 [] f.asked.op = "check" -> <<>>
                 [] f.asked.op = "jacobian" -> f.jac]

\* C27: no statement of check, jacobian or solve changes the solver (its
\* equations, partials, combos, tolerance), and in every state the values,
\* errors and const mappings of every caller are as they were passed, while
\* the call runs, when it has returned and when it has failed; so a call that
\* has ended while another call ran on the same solver has ended as it ends
\* alone.
C27_Frame ==
    /\ [][shared' = shared]_vars
    /\ [](\A c \in Callers :
            /\ frames[c].values = frames[c].asked.values
            /\ frames[c].errors = frames[c].asked.errors
            /\ frames[c].const = frames[c].asked.const
            /\ frames[c].pc \in {"done", "failed"} =>
                 Ending(frames[c]) = Alone(shared, frames[c].asked))

\* A solve call of the area equation with constant errors has returned while
\* a solve call of both equations is between its Jacobian and its table.
C27_Witness ==
    /\ frames[1].pc = "done" /\ frames[1].asked.op = "solve"
    /\ frames[1].asked.combo = "area" /\ frames[1].asked.const # <<>>
    /\ frames[1].result # <<>>
    /\ frames[2].pc = "inv" /\ frames[2].asked.op = "solve"
    /\ frames[2].asked.combo = NoCombo

\* ---------------------------------------------------------------------------
\* C28

\* The constant errors that the call gives for the stage of index i
ConstsOf(i) == IF given.consts.none THEN <<>> ELSE given.consts.value[i + 1]

\* C28: while the solver of stage i is being solved, its const mapping is
\* consts[i] when the caller gave a consts list and the empty mapping when
\* consts is None, and a call never fails for having been given a consts
\* list.
C28_StageConsts ==
    /\ (status = "running" /\ pc # "idle") => const = ConstsOf(stage)
    /\ status = "failed" => failure.type # "UnboundLocalError"

\* ---------------------------------------------------------------------------
\* C29

\* A call is in progress or has ended on a system whose number of
\* unknown-error variables differs from its number of active equations.
Indeterminate == pc # "idle" /\ DeterminacyViolated

FailedAtInversion ==
    /\ pc = "failed" /\ error = "LinAlgError"
    /\ steps[Len(steps)] = "inv"
    /\ ~IsSquareMatrix(Cols(jac, 1, Len(val)))

FailedAtJacobian ==
    /\ pc = "failed" /\ error \in {"KeyError", "TypeError"}
    /\ steps[Len(steps)] = "jacobian"
    /\ jac = <<>>

\* C29 as stated: no call on an indeterminate system reaches the table, and
\* such a call made with check=False fails at the inversion, on an unknown
\* block that is not square.
C29_Original ==
    Indeterminate =>
        /\ pc \notin {"table", "done"}
        /\ (~check /\ pc = "failed") => FailedAtInversion

\* C29 (as amended): no call on an indeterminate system reaches the table,
\* with check=False either; such a call made with check=False fails at the
\* inversion, on an unknown block that is not square, unless the Jacobian
\* could not be built, in which case it has failed one step earlier.
C29_Indeterminate ==
    Indeterminate =>
        /\ pc \notin {"table", "done"}
        /\ (~check /\ pc = "failed") => (FailedAtInversion \/ FailedAtJacobian)

\* C29: an unchecked call with more equations than unknowns has built its
\* Jacobian and failed at the inversion.
C29_Witness ==
    /\ Indeterminate /\ ~check
    /\ Cardinality(UnknownSet) < NumActive
    /\ jac # <<>>
    /\ FailedAtInversion

\* ------------------------------------------------------------------------
\* C30
\* ------------------------------------------------------------------------

\* A step leaves every mapping of the caller's errors list and values list
\* with the keys and values it had.
Untouched == given'.errors = given.errors /\ given'.values = given.values

\* The second call of SolverPipeline.solve has ended.
EndedAgain == first.ended /\ status \in {"returned", "failed"}

\* C30: no step of SolverPipeline.solve, returning or failing, changes the
\* keys or values of a mapping of the caller's errors list or values list
\* (the linked errors of the solvers after the first are written into a
\* copy), and the same call made again ends as the first did: with the same
\* table or the same exception.
C30_CallerErrors ==
    /\ [][Untouched]_vars
    /\ [](EndedAgain =>
            /\ status = first.status
            /\ returned = first.returned
            /\ failure = first.failure)

\* The second call has returned the tables of two solvers, the second of
\* them solved with a linked error that the caller's mapping does not hold.
C30_Witness ==
    /\ EndedAgain
    /\ status = "returned"
    /\ Len(used) = 2
    /\ used[2] # given.errors[2]
    /\ returned # <<>>

====
